---- MODULE Spec2Model ----
(***************************************************************************)
(* Camel Up race-state engine: the board's stacking movement               *)
(* (camelup/board.py), the dice (camelup/dice.py), the pyramid tickets     *)
(* (camelup/spectator_tiles.py), the bets (camelup/betting.py), the turn   *)
(* manager (camelup/turn_manager.py) and the game manager                  *)
(* (camelup/game_manager.py).                                              *)
(***************************************************************************)
EXTENDS Integers, Sequences, FiniteSets, TLC

VARIABLES
    camels,     \* the camels of the game (list passed to initialize_camels)
    tiles,      \* Board.tiles: slot index -> stack of camels, bottom first
    position,   \* Camel.position of every camel
    placed,     \* camels whose initial-setup die has been processed
    last        \* the last board operation and the state it started from

boardVars == <<camels, tiles, position, placed, last>>

VARIABLES
    bets,                   \* every Bet object created, by creation index
    active_bets,            \* BettingManager.active_bets (bet indices)
    resolved_bets,          \* BettingManager.resolved_bets (bet indices)
    leg_winner_tickets,     \* BettingManager.leg_winner_tickets: camel -> values left
    race_winner_decks,      \* BettingManager.race_winner_decks: camel -> bet indices
    race_loser_decks,       \* BettingManager.race_loser_decks: camel -> bet indices
    player_bets,            \* Player.bets of every player (bet indices)
    finish_cards_remaining, \* Player.finish_cards_remaining of every player
    bet_last                \* the last betting call, its arguments and the bets before it

betVars == <<bets, active_bets, resolved_bets, leg_winner_tickets,
             race_winner_decks, race_loser_decks, player_bets,
             finish_cards_remaining, bet_last>>

VARIABLES
    used_dice,              \* Dice.used_dice of the turn manager (as a set)
    leg_dice_history,       \* TurnManager.leg_dice_history
    leg_ended,              \* TurnManager.leg_ended
    last_pyramid_player,    \* TurnManager.last_pyramid_player (NoPlayer: None)
    available_tickets,      \* PyramidTicketManager.available_tickets
    pyramid_tickets,        \* Player.pyramid_tickets of every player
    money,                  \* Player.money of every player
    bank,                   \* GameManager.bank
    sp_tiles,               \* SpectatorTileManager.tiles, in insertion order
    starting_player_index,  \* TurnManager.starting_player_index
    current_player_index,   \* TurnManager.current_player_index
    current_round,          \* GameManager.current_round
    game_finished,          \* GameManager.game_finished
    winner,                 \* GameManager.winner
    turn_count,             \* turn_count of _execute_turn_based_leg
    pc,                     \* where the game manager stands
    ret,                    \* what the last action call returned
    hist                    \* what the resolutions so far started from

turnVars == <<used_dice, leg_dice_history, leg_ended, last_pyramid_player,
              available_tickets, pyramid_tickets, sp_tiles, ret>>

managerVars == <<money, bank, starting_player_index, current_player_index,
                 current_round, game_finished, winner, turn_count, pc, hist>>

VARIABLES
    remaining_tickets,      \* ExpectedValueCalculator.remaining_tickets
    ticket_positions,       \* ExpectedValueCalculator.ticket_positions
    ev_last                 \* the last call of the calculator and what it returned

calcVars == <<remaining_tickets, ticket_positions, ev_last>>

gameVars == <<turnVars, managerVars, calcVars>>

vars == <<boardVars, betVars, gameVars>>

(***************************************************************************)
(* Camels and the track                                                    *)
(***************************************************************************)
track_length == 16
OffBoard == 17

ForwardCamels == {"Red", "Blue", "Green", "Yellow", "Purple"}
BackwardCamels == {"Black", "White"}
AllCamels == ForwardCamels \cup BackwardCamels

moves_backward(c) == c \in BackwardCamels

Slots == 0..track_length

Max(a, b) == IF a >= b THEN a ELSE b
Min(a, b) == IF a <= b THEN a ELSE b

EmptyTiles == [s \in Slots |-> <<>>]

InStack(stack, c) == \E i \in 1..Len(stack) : stack[i] = c

\* list.index(camel): the first index holding the camel (1-based here)
IndexOf(stack, c) == CHOOSE i \in 1..Len(stack) :
                        /\ stack[i] = c
                        /\ \A j \in 1..(i - 1) : stack[j] # c

\* list.remove(camel): the list without the first occurrence of the camel
RemoveFirst(stack, c) ==
    LET i == IndexOf(stack, c)
    IN  SubSeq(stack, 1, i - 1) \o SubSeq(stack, i + 1, Len(stack))

(***************************************************************************)
(* Board                                                                   *)
(***************************************************************************)
\* Board.initialize_camels: forward camels on slot 0, backward camels off
\* the track on 17
initialize_camels_position(cs) ==
    [c \in cs |-> IF moves_backward(c) THEN OffBoard ELSE 0]

\* the order in which initialize_camels appends the forward camels to slot 0
SetupListOrder == <<"Red", "Blue", "Green", "Yellow", "Purple", "Black", "White">>

initialize_camels_tiles(cs) ==
    [EmptyTiles EXCEPT ![0] =
        SelectSeq(SetupListOrder, LAMBDA c : c \in cs /\ ~moves_backward(c))]

\* Board.move_camel_initial_setup: the new slot of the camel
initial_setup_new_pos(c, steps) ==
    IF moves_backward(c) THEN Max(0, 17 - steps) ELSE steps

\* Board.move_camel_initial_setup: the tiles after the placement
move_camel_initial_setup_tiles(t, pos, c, steps) ==
    LET t1 == IF pos[c] <= track_length
              THEN [t EXCEPT ![pos[c]] = RemoveFirst(t[pos[c]], c)]
              ELSE t
        new_pos == initial_setup_new_pos(c, steps)
    IN  [t1 EXCEPT ![new_pos] = Append(t1[new_pos], c)]

\* Board.move_camel_stack: the destination slot, the same for every camel
move_camel_stack_new_pos(old_pos, steps) == Min(old_pos + steps, track_length)

\* Board.move_camel_with_stack: the destination slot
BuggyForwardNewPos(c, current_pos, steps) ==
    Min(current_pos + steps, track_length)

with_stack_new_pos(c, current_pos, steps) ==
    IF moves_backward(c)
    THEN Max(0, current_pos - steps)
    ELSE Min(current_pos + steps, track_length)

\* Board.move_camel_with_stack: the camel and all camels above it
moving_stack(stack, c) == SubSeq(stack, IndexOf(stack, c), Len(stack))

\* Board.move_camel_with_stack: what stays on the old slot
KeepsCamelBelow(stack, c) == SubSeq(stack, 1, IndexOf(stack, c))

remaining_stack(stack, c) == SubSeq(stack, 1, IndexOf(stack, c) - 1)

\* Board.move_camel_with_stack: the tiles after the move
UnderNewTiles(t, pos, c, steps) ==
    LET current_pos == pos[c]
        stack == t[current_pos]
        t1 == [t EXCEPT ![current_pos] = remaining_stack(stack, c)]
        new_pos == with_stack_new_pos(c, current_pos, steps)
    IN  [t1 EXCEPT ![new_pos] = moving_stack(stack, c) \o t1[new_pos]]

move_camel_with_stack_tiles(t, pos, c, steps) ==
    LET current_pos == pos[c]
        stack == t[current_pos]
        t1 == [t EXCEPT ![current_pos] = remaining_stack(stack, c)]
        new_pos == with_stack_new_pos(c, current_pos, steps)
    IN  [t1 EXCEPT ![new_pos] = t1[new_pos] \o moving_stack(stack, c)]

\* Board.move_camel_with_stack: the positions after the move
move_camel_with_stack_position(t, pos, c, steps) ==
    LET current_pos == pos[c]
        moving == moving_stack(t[current_pos], c)
        new_pos == with_stack_new_pos(c, current_pos, steps)
    IN  [x \in DOMAIN pos |-> IF InStack(moving, x) THEN new_pos ELSE pos[x]]

\* Board.is_finished: scans the slots from track_length down to 0 and
\* returns True at the first non-empty one
is_finished(t) == \E s \in Slots : t[s] # <<>>

\* Board.get_winning_camel: top camel of the furthest occupied slot, or None
None == "None"

FurthestOccupied(t) == CHOOSE s \in Slots :
                          /\ t[s] # <<>>
                          /\ \A u \in Slots : u > s => t[u] = <<>>

get_winning_camel(t) ==
    IF \A s \in Slots : t[s] = <<>>
    THEN None
    ELSE LET s == FurthestOccupied(t) IN t[s][Len(t[s])]

\* Board.move_camel_stack: the tiles after the move
move_camel_stack_tiles(t, pos, c, steps) ==
    LET old_pos == pos[c]
        stack == t[old_pos]
        t1 == [t EXCEPT ![old_pos] = remaining_stack(stack, c)]
        new_pos == move_camel_stack_new_pos(old_pos, steps)
    IN  [t1 EXCEPT ![new_pos] = t1[new_pos] \o moving_stack(stack, c)]

\* Board.move_camel_stack: the positions after the move
move_camel_stack_position(t, pos, c, steps) ==
    LET old_pos == pos[c]
        moving == moving_stack(t[old_pos], c)
        new_pos == move_camel_stack_new_pos(old_pos, steps)
    IN  [x \in DOMAIN pos |-> IF InStack(moving, x) THEN new_pos ELSE pos[x]]

(***************************************************************************)
(* Players                                                                 *)
(***************************************************************************)
NumPlayers == 2
Players == 0..(NumPlayers - 1)

\* Player.__init__
starting_money == 3
finish_cards == 5

\* Player.receive_payout: the balance cannot go below 0
add_to_balance(m, amount) == m + amount

receive_payout(m, amount) == Max(0, m + amount)

\* Player.can_place_race_bet
HasCardOrNone(cards, p) == cards[p] >= 0

can_place_race_bet(cards, p) == cards[p] > 0

(***************************************************************************)
(* Bets and the betting manager                                            *)
(***************************************************************************)
\* Bet.__init__ and its subclasses: a new, unresolved bet.  An attribute the
\* code has not set yet (payout, leg_payout) is recorded by its has_ flag;
\* deck_position 0 stands for None.
NewBet(p, bet_type, camel, value) ==
    [player_name |-> p, bet_type |-> bet_type, target |-> camel,
     ticket_value |-> value, resolved |-> FALSE, won |-> FALSE,
     has_leg_payout |-> FALSE, leg_payout |-> 0,
     has_payout |-> FALSE, payout |-> 0, deck_position |-> 0]

\* BettingManager._initialize_leg_tickets
FourTicketsPerCamel == [c \in ForwardCamels |-> <<5, 3, 2, 1>>]

initialize_leg_tickets == [c \in ForwardCamels |-> <<5, 3, 2>>]

\* BettingManager._initialize_race_decks
initialize_race_decks == [c \in ForwardCamels |-> <<>>]

\* LegWinnerBet.calculate_leg_payout
SecondPaysNothing(ticket_value, camel_position) ==
    IF camel_position = 1 THEN ticket_value ELSE -1

calculate_leg_payout(ticket_value, camel_position) ==
    IF camel_position = 1 THEN ticket_value
    ELSE IF camel_position = 2 THEN 1
    ELSE -1

\* RaceWinnerBet.calculate_race_payout / RaceLoserBet.calculate_race_payout
race_payouts == <<8, 5, 3, 2, 1>>

SixthPaysOne(won, deck_position) ==
    IF won
    THEN IF deck_position <= Len(race_payouts)
         THEN race_payouts[deck_position]
         ELSE 1
    ELSE -1

calculate_race_payout(won, deck_position) ==
    IF won
    THEN IF deck_position <= Len(race_payouts)
         THEN race_payouts[deck_position]
         ELSE -1
    ELSE -1

\* position of a camel in a finishing order (1-based), 0 when not listed
PositionIn(results, camel) ==
    IF \E i \in 1..Len(results) : results[i] = camel
    THEN CHOOSE i \in 1..Len(results) :
            /\ results[i] = camel
            /\ \A j \in 1..(i - 1) : results[j] # camel
    ELSE 0

\* BettingManager.resolve_leg_bets: the bets it resolves, in active_bets order
leg_bets_to_resolve(bs, active) ==
    SelectSeq(active, LAMBDA i : bs[i].bet_type = "leg_winner" /\ ~bs[i].resolved)

\* BettingManager.resolve_leg_bets: one bet after the call.  leg_payout is
\* set only when the target camel is found in leg_results.
resolve_leg_bet(b, leg_results) ==
    LET camel_position == PositionIn(leg_results, b.target)
    IN  IF camel_position # 0
        THEN [b EXCEPT !.has_leg_payout = TRUE,
                       !.leg_payout = calculate_leg_payout(b.ticket_value, camel_position),
                       !.resolved = TRUE]
        ELSE [b EXCEPT !.resolved = TRUE]

SeqToSet(q) == {q[i] : i \in 1..Len(q)}

resolve_leg_bets_store(bs, active, leg_results) ==
    LET todo == SeqToSet(leg_bets_to_resolve(bs, active))
    IN  [i \in DOMAIN bs |->
            IF i \in todo THEN resolve_leg_bet(bs[i], leg_results) ELSE bs[i]]

\* the permutations of a deck: every order random.shuffle can produce
Shuffles(deck) ==
    LET n == Len(deck)
        perms == {f \in [1..n -> 1..n] : \A i, j \in 1..n : f[i] = f[j] => i = j}
    IN  {[i \in 1..n |-> deck[f[i]]] : f \in perms}

\* BettingManager.resolve_race_bets: a bet of the deck of the actual winner
\* (or loser), revealed at deck_position
resolve_drawn(b, deck_position) ==
    [b EXCEPT !.won = TRUE, !.deck_position = deck_position,
              !.has_payout = TRUE,
              !.payout = calculate_race_payout(TRUE, deck_position),
              !.resolved = TRUE]

\* BettingManager.resolve_race_bets: a bet of any other deck
OtherDeckKeepsStake(b) ==
    [b EXCEPT !.won = FALSE, !.has_payout = TRUE, !.payout = 0,
              !.resolved = TRUE]

resolve_other(b) ==
    [b EXCEPT !.won = FALSE, !.has_payout = TRUE,
              !.payout = calculate_race_payout(FALSE, 0),
              !.resolved = TRUE]

RECURSIVE FlattenDecks(_, _, _)
\* the bets of all decks but the one of camel `skip`, in the order of the
\* dictionary (the colors in which _initialize_race_decks created it)
DeckOrder == <<"Red", "Blue", "Green", "Yellow", "Purple">>

FlattenDecks(decks, skip, k) ==
    IF k > Len(DeckOrder) THEN <<>>
    ELSE (IF DeckOrder[k] = skip THEN <<>> ELSE decks[DeckOrder[k]])
         \o FlattenDecks(decks, skip, k + 1)

\* BettingManager.resolve_race_bets: the list `resolved` it builds, given
\* the two shuffled decks
race_resolved_list(wdecks, ldecks, final_results, wshuffled, lshuffled) ==
    LET actual_winner == IF final_results # <<>> THEN final_results[1] ELSE None
        actual_loser == IF final_results # <<>> THEN final_results[Len(final_results)] ELSE None
    IN  wshuffled \o FlattenDecks(wdecks, actual_winner, 1)
        \o lshuffled \o FlattenDecks(ldecks, actual_loser, 1)

\* BettingManager.resolve_race_bets: the bets after the call
resolve_race_bets_store(bs, wdecks, ldecks, final_results, wshuffled, lshuffled) ==
    LET actual_winner == IF final_results # <<>> THEN final_results[1] ELSE None
        actual_loser == IF final_results # <<>> THEN final_results[Len(final_results)] ELSE None
        others == SeqToSet(FlattenDecks(wdecks, actual_winner, 1))
                  \cup SeqToSet(FlattenDecks(ldecks, actual_loser, 1))
    IN  [i \in DOMAIN bs |->
            IF PositionIn(wshuffled, i) # 0
            THEN resolve_drawn(bs[i], PositionIn(wshuffled, i))
            ELSE IF PositionIn(lshuffled, i) # 0
            THEN resolve_drawn(bs[i], PositionIn(lshuffled, i))
            ELSE IF i \in others THEN resolve_other(bs[i])
            ELSE bs[i]]

\* the list without the members of a set (list.remove of each resolved bet)
Without(q, S) == SelectSeq(q, LAMBDA i : i \notin S)

BetInit ==
    /\ bets = <<>>
    /\ active_bets = <<>>
    /\ resolved_bets = <<>>
    /\ leg_winner_tickets = initialize_leg_tickets
    /\ race_winner_decks = initialize_race_decks
    /\ race_loser_decks = initialize_race_decks
    /\ player_bets = [p \in Players |-> <<>>]
    /\ finish_cards_remaining = [p \in Players |-> finish_cards]
    /\ bet_last = [op |-> "none", results |-> <<>>, bets |-> <<>>,
                   active |-> <<>>, wdecks |-> initialize_race_decks,
                   ldecks |-> initialize_race_decks,
                   wshuffled |-> <<>>, lshuffled |-> <<>>, ok |-> TRUE,
                   cards |-> [p \in Players |-> finish_cards],
                   player_bets |-> [p \in Players |-> <<>>],
                   tickets |-> initialize_leg_tickets]

BetCall(op, results, wsh, lsh, ok) ==
    [op |-> op, results |-> results, bets |-> bets, active |-> active_bets,
     wdecks |-> race_winner_decks, ldecks |-> race_loser_decks,
     wshuffled |-> wsh, lshuffled |-> lsh, ok |-> ok,
     cards |-> finish_cards_remaining, player_bets |-> player_bets,
     tickets |-> leg_winner_tickets]

\* BettingManager.place_bet(player, bet_info); bet_info is
\* (bet_type, camel) or ('leg_winner', camel, ticket_value)
place_bet(p, bet_type, camel, value) ==
    LET id == Len(bets) + 1
        race == bet_type \in {"race_winner", "race_loser"}
    IN  IF (race /\ ~can_place_race_bet(finish_cards_remaining, p))
           \/ bet_type \notin {"race_winner", "race_loser", "leg_winner"}
        THEN /\ bet_last' = BetCall("place", <<>>, <<>>, <<>>, FALSE)
             /\ UNCHANGED <<bets, active_bets, resolved_bets, leg_winner_tickets,
                            race_winner_decks, race_loser_decks, player_bets,
                            finish_cards_remaining>>
        ELSE /\ bets' = Append(bets, NewBet(p, bet_type, camel,
                                            IF race THEN 0 ELSE value))
             /\ finish_cards_remaining' =
                    IF race
                    THEN [finish_cards_remaining EXCEPT ![p] = @ - 1]
                    ELSE finish_cards_remaining
             /\ race_winner_decks' =
                    IF bet_type = "race_winner"
                    THEN [race_winner_decks EXCEPT ![camel] = Append(@, id)]
                    ELSE race_winner_decks
             /\ race_loser_decks' =
                    IF bet_type = "race_loser"
                    THEN [race_loser_decks EXCEPT ![camel] = Append(@, id)]
                    ELSE race_loser_decks
             /\ leg_winner_tickets' =
                    IF bet_type = "leg_winner" /\ leg_winner_tickets[camel] # <<>>
                    THEN [leg_winner_tickets EXCEPT ![camel] = Tail(@)]
                    ELSE leg_winner_tickets
             /\ player_bets' = [player_bets EXCEPT ![p] = Append(@, id)]
             /\ active_bets' = Append(active_bets, id)
             /\ bet_last' = BetCall("place", <<>>, <<>>, <<>>, TRUE)
             /\ UNCHANGED resolved_bets

\* BettingManager.resolve_leg_bets(leg_results)
resolve_leg_bets(leg_results) ==
    LET resolved == leg_bets_to_resolve(bets, active_bets)
    IN  /\ bets' = resolve_leg_bets_store(bets, active_bets, leg_results)
        /\ active_bets' = Without(active_bets, SeqToSet(resolved))
        /\ resolved_bets' = resolved_bets \o resolved
        /\ bet_last' = BetCall("resolve_leg", leg_results, <<>>, <<>>, TRUE)
        /\ UNCHANGED <<leg_winner_tickets, race_winner_decks, race_loser_decks,
                       player_bets, finish_cards_remaining>>

\* BettingManager.resolve_race_bets(final_results), with the two orders the
\* shuffles produced
resolve_race_bets(final_results, wshuffled, lshuffled) ==
    LET resolved == race_resolved_list(race_winner_decks, race_loser_decks,
                                       final_results, wshuffled, lshuffled)
    IN  /\ bets' = resolve_race_bets_store(bets, race_winner_decks, race_loser_decks,
                                           final_results, wshuffled, lshuffled)
        /\ active_bets' = Without(active_bets, SeqToSet(resolved))
        /\ resolved_bets' = resolved_bets \o resolved
        /\ bet_last' = BetCall("resolve_race", final_results, wshuffled, lshuffled, TRUE)
        /\ UNCHANGED <<leg_winner_tickets, race_winner_decks, race_loser_decks,
                       player_bets, finish_cards_remaining>>

\* the deck resolve_race_bets copies and shuffles for the first (last) camel
WinnerDeck(final_results) ==
    IF final_results # <<>> THEN race_winner_decks[final_results[1]] ELSE <<>>

LoserDeck(final_results) ==
    IF final_results # <<>>
    THEN race_loser_decks[final_results[Len(final_results)]]
    ELSE <<>>

\* the record of the last board operation: what it was called with and the
\* board it started from
NoOp == [op |-> "init", camel |-> None, steps |-> 0,
         tiles |-> EmptyTiles, position |-> [c \in AllCamels |-> 0]]

Padded(pos) == [c \in AllCamels |-> IF c \in DOMAIN pos THEN pos[c] ELSE 0]

(***************************************************************************)
(* Dice, pyramid tickets, spectator tiles                                  *)
(***************************************************************************)
\* Dice.dice: the five colored dice and the combined black/white die
DiceColors == {"Red", "Blue", "Green", "Yellow", "Purple", "BW"}

\* Dice.colored_faces, as the set of its values
colored_faces == {1, 2, 3}

\* Dice.bw_faces: (steps, camel)
bw_faces == {<<st, c>> : st \in 1..3, c \in {"White", "Black"}}

\* Dice.get_available_dice
EveryDie(used) == DiceColors

get_available_dice(used) == DiceColors \ used

\* Dice.roll_random_die: the (camel color, steps) pairs die `color` can give
roll_results(color) ==
    IF color = "BW"
    THEN {<<f[2], f[1]>> : f \in bw_faces}
    ELSE {<<color, st>> : st \in colored_faces}

\* PyramidTicketManager.__init__ / reset_for_new_leg
pyramid_pool == 5

\* the leg ends when this many dice are used (turn_manager.py:208)
dice_per_leg == 6

\* PyramidTicketManager.can_take_ticket
SixthTicket(avail) == avail >= 0

can_take_ticket(avail) == avail > 0

NoPlayer == -1

\* SpectatorTileManager.can_place_tile
can_place_tile(sp, pos) ==
    IF pos <= 1 \/ pos >= track_length
    THEN FALSE
    ELSE \A i \in 1..Len(sp) : sp[i].position # pos

\* SpectatorTileManager.get_available_positions
get_available_positions(sp, t) ==
    {pos \in 2..(track_length - 1) : t[pos] = <<>> /\ can_place_tile(sp, pos)}

\* SpectatorTileManager.get_player_tile_position: 0 stands for None
TileNeverFound(sp, p) == 0

get_player_tile_position(sp, p) ==
    IF \E i \in 1..Len(sp) : sp[i].player_name = p
    THEN sp[CHOOSE i \in 1..Len(sp) :
                /\ sp[i].player_name = p
                /\ \A j \in 1..(i - 1) : sp[j].player_name # p].position
    ELSE 0

\* SpectatorTileManager.place_tile, when can_place_tile holds
place_tile(sp, p, pos, side) ==
    Append(sp, [player_name |-> p, position |-> pos, side |-> side])

\* SpectatorTileManager.remove_tile
remove_tile(sp, pos) == SelectSeq(sp, LAMBDA tl : tl.position # pos)

(***************************************************************************)
(* Turn manager                                                            *)
(***************************************************************************)
\* the camels in the order of game.camels
CamelList == SelectSeq(SetupListOrder, LAMBDA c : c \in camels)

\* BettingManager.get_available_leg_bets: the camels with tickets left
get_available_leg_bets ==
    {c \in camels : ~moves_backward(c) /\ c \in DOMAIN leg_winner_tickets
                     /\ leg_winner_tickets[c] # <<>>}

\* BettingManager.get_available_race_bets / get_available_race_loser_bets
get_available_race_bets == {c \in camels : ~moves_backward(c)}

Ret(ok, msg) == [ok |-> ok, msg |-> msg]

\* TurnManager.next_turn
next_turn(i) == (i + 1) % NumPlayers

\* TurnManager.rotate_starting_player_marker: the new starting player
MarkerToLastPlayer(last_player_index) == last_player_index

rotate_starting_player_marker(last_player_index) ==
    (last_player_index - 1) % NumPlayers

\* TurnManager.execute_action_1
execute_action_1(p, camel, value) ==
    /\ place_bet(p, "leg_winner", camel, value)
    /\ ret' = IF bet_last'.ok THEN Ret(TRUE, "Took ticket")
                              ELSE Ret(FALSE, "Unable to take ticket")
    /\ UNCHANGED <<boardVars, used_dice, leg_dice_history, leg_ended,
                   last_pyramid_player, available_tickets, pyramid_tickets,
                   sp_tiles>>

\* TurnManager.execute_action_2
execute_action_2(p, pos, side) ==
    LET existing_pos == get_player_tile_position(sp_tiles, p)
    IN  /\ IF existing_pos # 0
           THEN IF can_place_tile(sp_tiles, pos)
                THEN /\ sp_tiles' = place_tile(remove_tile(sp_tiles, existing_pos),
                                               p, pos, side)
                     /\ ret' = Ret(TRUE, "Moved tile")
                ELSE /\ ret' = Ret(FALSE, "Unable to move tile")
                     /\ UNCHANGED sp_tiles
           ELSE IF can_place_tile(sp_tiles, pos)
                THEN /\ sp_tiles' = place_tile(sp_tiles, p, pos, side)
                     /\ ret' = Ret(TRUE, "Placed tile")
                ELSE /\ ret' = Ret(FALSE, "Unable to place tile")
                     /\ UNCHANGED sp_tiles
        /\ UNCHANGED <<boardVars, betVars, used_dice, leg_dice_history, leg_ended,
                       last_pyramid_player, available_tickets, pyramid_tickets>>

\* TurnManager.execute_action_3 once the ticket is taken and the die rolled:
\* the move of the camel.  move_camel_with_stack returns nothing, so
\* spectator_payout is None and no tile payout is made.
action_3_move(die_color, steps) ==
    IF die_color \in camels
    THEN /\ tiles' = move_camel_with_stack_tiles(tiles, position, die_color, steps)
         /\ position' = move_camel_with_stack_position(tiles, position, die_color, steps)
         /\ last' = [op |-> "move", camel |-> die_color, steps |-> steps,
                     tiles |-> tiles, position |-> Padded(position)]
         /\ leg_ended' = IF Cardinality(used_dice') = dice_per_leg
                         THEN TRUE ELSE leg_ended
         /\ ret' = Ret(TRUE, "Took pyramid ticket")
    ELSE /\ ret' = Ret(FALSE, "Could not find camel")
         /\ UNCHANGED <<tiles, position, last, leg_ended>>

\* TurnManager.execute_action_3
execute_action_3(p) ==
    /\ IF ~can_take_ticket(available_tickets)
       THEN /\ ret' = Ret(FALSE, "No pyramid tickets available")
            /\ UNCHANGED <<tiles, position, last, used_dice, leg_dice_history,
                           leg_ended, last_pyramid_player, available_tickets,
                           pyramid_tickets>>
       ELSE /\ available_tickets' = available_tickets - 1
            /\ pyramid_tickets' = [pyramid_tickets EXCEPT ![p] = @ + 1]
            /\ last_pyramid_player' = p
            /\ IF get_available_dice(used_dice) = {}
               THEN /\ ret' = Ret(FALSE, "No dice available to roll")
                    /\ UNCHANGED <<tiles, position, last, used_dice,
                                   leg_dice_history, leg_ended>>
               ELSE \E color \in get_available_dice(used_dice) :
                      \E r \in roll_results(color) :
                         /\ used_dice' = used_dice \cup {color}
                         /\ leg_dice_history' = Append(leg_dice_history, r)
                         /\ action_3_move(r[1], r[2])
    /\ UNCHANGED <<camels, placed, betVars, sp_tiles>>

\* TurnManager.execute_action_4
execute_action_4(p, bet_type, camel) ==
    /\ place_bet(p, bet_type, camel, 0)
    /\ ret' = IF bet_last'.ok THEN Ret(TRUE, "Placed race bet")
                              ELSE Ret(FALSE, "Unable to place race bet")
    /\ UNCHANGED <<boardVars, used_dice, leg_dice_history, leg_ended,
                   last_pyramid_player, available_tickets, pyramid_tickets,
                   sp_tiles>>

\* a turn that changes nothing: no action offered, an invalid choice, or no
\* parameter selected (process_player_turn, _process_human_turn,
\* _execute_selected_action)
no_action_taken ==
    /\ ret' = Ret(FALSE, "No action")
    /\ UNCHANGED <<boardVars, betVars, used_dice, leg_dice_history, leg_ended,
                   last_pyramid_player, available_tickets, pyramid_tickets,
                   sp_tiles>>

TileSides == {"cheering", "booing"}

\* TurnManager.process_player_turn: one of the actions get_available_actions
\* offers, with a parameter from the ranges it embeds
process_player_turn(p) ==
    \/ no_action_taken
    \/ \E c \in get_available_leg_bets :
          execute_action_1(p, c, leg_winner_tickets[c][1])
    \/ \E pos \in get_available_positions(sp_tiles, tiles), side \in TileSides :
          execute_action_2(p, pos, side)
    \/ /\ can_take_ticket(available_tickets)
       /\ execute_action_3(p)
    \/ /\ can_place_race_bet(finish_cards_remaining, p)
       /\ \E c \in get_available_race_bets,
             bet_type \in {"race_winner", "race_loser"} :
             execute_action_4(p, bet_type, c)

(***************************************************************************)
(* Game manager                                                            *)
(***************************************************************************)
\* GameManager.__init__: the bank
bank_start == 1000

\* the safety limit of _execute_turn_based_leg
max_turns == 100

\* the number of legs main() is followed through
MaxRounds == 2

NoHist == [round_ends |-> 0, dice_drawn |-> 0, leg_ended |-> FALSE,
           game_ends |-> 0, turns |-> 0,
           end_kind |-> "none", turns_at_end |-> 0,
           money_before |-> [p \in Players |-> starting_money],
           tickets_before |-> [p \in Players |-> 0],
           start_before |-> 0, last_before |-> NoPlayer,
           last_taker |-> NoPlayer, taker_before |-> NoPlayer]

\* the player whose ticket count a step raises, else the one noted before
LastTaker ==
    IF pyramid_tickets' = pyramid_tickets
    THEN hist.last_taker
    ELSE CHOOSE p \in Players : pyramid_tickets'[p] > pyramid_tickets[p]

\* GameManager.__init__, initialize_game, TurnManager.__init__
\* ExpectedValueCalculator.__init__: the tickets the estimator counts per camel
tickets_per_camel == 4

NoGame == [tiles |-> EmptyTiles, position |-> [c \in AllCamels |-> 0],
           moved_this_leg |-> {}]

NoEvCall == [op |-> "none", ok |-> FALSE, camel |-> None, num_simulations |-> 0,
             queries |-> 0,
             before |-> NoGame, after |-> NoGame, trials |-> <<>>,
             results |-> [c \in ForwardCamels |-> 0],
             positions_before |-> [c \in ForwardCamels |-> 0],
             remaining_before |-> [c \in ForwardCamels |-> 0]]

GameInit ==
    /\ used_dice = {}
    /\ leg_dice_history = <<>>
    /\ leg_ended = FALSE
    /\ last_pyramid_player = NoPlayer
    /\ available_tickets = pyramid_pool
    /\ pyramid_tickets = [p \in Players |-> 0]
    /\ money = [p \in Players |-> starting_money]
    /\ bank = bank_start
    /\ sp_tiles = <<>>
    /\ starting_player_index = 0
    /\ current_player_index = 0
    /\ current_round = 0
    /\ game_finished = FALSE
    /\ winner = None
    /\ turn_count = 0
    /\ pc = "setup"
    /\ ret = Ret(FALSE, "")
    /\ hist = NoHist
    /\ remaining_tickets = [c \in ForwardCamels |-> tickets_per_camel]
    /\ ticket_positions = [c \in ForwardCamels |-> 0]
    /\ ev_last = NoEvCall

RECURSIVE apply_leg_payouts(_, _, _, _)
\* _resolve_round_end: the payouts of the resolved leg bets, in list order;
\* a bet without leg_payout is passed over
apply_leg_payouts(m, bs, resolved, k) ==
    IF k > Len(resolved) THEN m
    ELSE LET b == bs[resolved[k]]
         IN  apply_leg_payouts(
                 IF b.has_leg_payout
                 THEN [m EXCEPT ![b.player_name] = receive_payout(@, b.leg_payout)]
                 ELSE m,
                 bs, resolved, k + 1)

RECURSIVE apply_race_payouts(_, _, _, _)
\* _resolve_game_end: the payouts of the resolved race bets, in list order
apply_race_payouts(m, bs, resolved, k) ==
    IF k > Len(resolved) THEN m
    ELSE LET b == bs[resolved[k]]
             payout == IF b.has_payout THEN b.payout ELSE 0
         IN  apply_race_payouts(
                 IF payout # 0
                 THEN [m EXCEPT ![b.player_name] = receive_payout(@, payout)]
                 ELSE m,
                 bs, resolved, k + 1)

\* Player.collect_pyramid_payouts, for every player
collect_pyramid_payouts(m, tickets) == [p \in Players |-> m[p] + tickets[p]]

RECURSIVE SumUpTo(_, _)
SumUpTo(f, n) == IF n < 0 THEN 0 ELSE f[n] + SumUpTo(f, n - 1)

\* Player.clear_leg_bets
clear_leg_bets(pb, bs) ==
    [p \in Players |-> SelectSeq(pb[p], LAMBDA i : bs[i].bet_type = "race_winner")]

RECURSIVE ForwardAt(_)
\* GameManager._get_final_race_positions: the forward camels sorted by
\* position, furthest first; the sort is stable, so camels on the same slot
\* keep the order of game.camels
ForwardAt(slot) ==
    IF slot < 0 THEN <<>>
    ELSE SelectSeq(CamelList,
                   LAMBDA c : ~moves_backward(c) /\ position[c] = slot)
         \o ForwardAt(slot - 1)

get_final_race_positions == ForwardAt(OffBoard)

\* GameManager._resolve_round_end
resolve_round_end ==
    LET leg_winner == get_winning_camel(tiles)
        leg_results == IF leg_winner # None THEN <<leg_winner>> ELSE <<>>
        resolved == leg_bets_to_resolve(bets, active_bets)
        new_bets == resolve_leg_bets_store(bets, active_bets, leg_results)
    IN  /\ bets' = new_bets
        /\ active_bets' = Without(active_bets, SeqToSet(resolved))
        /\ resolved_bets' = resolved_bets \o resolved
        /\ bet_last' = BetCall("resolve_leg", leg_results, <<>>, <<>>, TRUE)
        /\ money' = collect_pyramid_payouts(
                        apply_leg_payouts(money, new_bets, resolved, 1),
                        pyramid_tickets)
        /\ bank' = bank - SumUpTo(pyramid_tickets, NumPlayers - 1)
        /\ pyramid_tickets' = [p \in Players |-> 0]
        /\ IF last_pyramid_player # NoPlayer
           THEN /\ starting_player_index' =
                      rotate_starting_player_marker(last_pyramid_player)
                /\ current_player_index' =
                      rotate_starting_player_marker(last_pyramid_player)
           ELSE UNCHANGED <<starting_player_index, current_player_index>>
        /\ leg_winner_tickets' = initialize_leg_tickets
        /\ available_tickets' = pyramid_pool
        /\ player_bets' = clear_leg_bets(player_bets, bets)
        /\ used_dice' = {}
        /\ leg_ended' = FALSE
        /\ last_pyramid_player' = NoPlayer
        /\ hist' = [hist EXCEPT !.round_ends = @ + 1,
                                !.dice_drawn = Cardinality(used_dice),
                                !.leg_ended = leg_ended,
                                !.end_kind = "round",
                                !.turns_at_end = hist.turns,
                                !.money_before = money,
                                !.tickets_before = pyramid_tickets,
                                !.start_before = starting_player_index,
                                !.last_before = last_pyramid_player,
                                !.taker_before = hist.last_taker,
                                !.last_taker = NoPlayer]
        /\ UNCHANGED <<boardVars, race_winner_decks, race_loser_decks,
                       finish_cards_remaining, leg_dice_history, sp_tiles, ret,
                       current_round, game_finished, winner, turn_count>>

\* GameManager.play_round once _execute_turn_based_leg has returned a
\* winner: game_finished, winner, _resolve_game_end
resolve_game_end ==
    LET final_positions == get_final_race_positions
    IN  \E wshuffled \in Shuffles(WinnerDeck(final_positions)),
           lshuffled \in Shuffles(LoserDeck(final_positions)) :
           LET resolved == race_resolved_list(race_winner_decks, race_loser_decks,
                                              final_positions, wshuffled, lshuffled)
               new_bets == resolve_race_bets_store(bets, race_winner_decks,
                                                   race_loser_decks, final_positions,
                                                   wshuffled, lshuffled)
           IN  /\ bets' = new_bets
               /\ active_bets' = Without(active_bets, SeqToSet(resolved))
               /\ resolved_bets' = resolved_bets \o resolved
               /\ bet_last' = BetCall("resolve_race", final_positions,
                                      wshuffled, lshuffled, TRUE)
               /\ money' = apply_race_payouts(money, new_bets, resolved, 1)
               /\ game_finished' = TRUE
               /\ winner' = get_winning_camel(tiles)
               /\ hist' = [hist EXCEPT !.game_ends = @ + 1,
                                       !.end_kind = "game",
                                       !.turns_at_end = hist.turns,
                                       !.money_before = money,
                                       !.tickets_before = pyramid_tickets,
                                       !.start_before = starting_player_index,
                                       !.last_before = last_pyramid_player,
                                       !.taker_before = hist.last_taker]
               /\ UNCHANGED <<boardVars, turnVars, leg_winner_tickets,
                              race_winner_decks, race_loser_decks, player_bets,
                              finish_cards_remaining, bank, starting_player_index,
                              current_player_index, current_round, turn_count>>

\* _execute_turn_based_leg: the loop condition
leg_continues == ~leg_ended /\ ~is_finished(tiles)

\* _execute_turn_based_leg: the first half of the loop body, the turn of the
\* current player
take_turn ==
    /\ turn_count' = turn_count + 1
    /\ process_player_turn(current_player_index)
    /\ hist' = [hist EXCEPT !.turns = @ + 1, !.last_taker = LastTaker]
    /\ pc' = "turn_done"
    /\ UNCHANGED <<money, bank, starting_player_index, current_player_index,
                   current_round, game_finished, winner>>

\* _execute_turn_based_leg: the second half of the loop body, the check for
\* the end of the race, the next player and the safety limit
after_turn ==
    IF is_finished(tiles) /\ get_winning_camel(tiles) # None
    THEN /\ resolve_game_end
         /\ pc' = "idle"
    ELSE /\ current_player_index' = next_turn(current_player_index)
         /\ pc' = IF turn_count > max_turns THEN "leg_over" ELSE "loop"
         /\ UNCHANGED <<boardVars, betVars, turnVars, money, bank,
                        starting_player_index, current_round, game_finished,
                        winner, turn_count, hist>>

(***************************************************************************)
(* The program: main() sets the camels up and plays legs                   *)
(***************************************************************************)
\* the orders in which run_initial_setup processes the shuffled dice
SetupOrders ==
    {<<"White", "Black", "Red", "Blue", "Green", "Yellow", "Purple">>,
     <<"Purple", "Yellow", "Green", "Blue", "Red", "Black", "White">>}

RECURSIVE setup_tiles(_, _, _, _, _)
\* run_initial_setup: the board after the dice order[k..] are processed
setup_tiles(t, pos, order, rolls, k) ==
    IF k > Len(order) THEN t
    ELSE setup_tiles(
            move_camel_initial_setup_tiles(t, pos, order[k], rolls[order[k]]),
            [pos EXCEPT ![order[k]] = initial_setup_new_pos(order[k], rolls[order[k]])],
            order, rolls, k + 1)

\* run_initial_setup: where the dice leave every camel
setup_position(rolls) == [c \in AllCamels |-> initial_setup_new_pos(c, rolls[c])]

Init ==
    /\ BetInit
    /\ GameInit
    /\ camels = AllCamels
    /\ tiles = initialize_camels_tiles(camels)
    /\ position = initialize_camels_position(camels)
    /\ placed = {}
    /\ last = NoOp

\* main.run_initial_setup, for one order of the dice and one roll of each
run_initial_setup(order, rolls) ==
    LET c == order[Len(order)]
        before == SubSeq(order, 1, Len(order) - 1)
        pos_before == [x \in AllCamels |->
                         IF x = c THEN position[x]
                         ELSE initial_setup_new_pos(x, rolls[x])]
    IN  /\ pc = "setup"
        /\ tiles' = setup_tiles(tiles, position, order, rolls, 1)
        /\ position' = setup_position(rolls)
        /\ last' = [op |-> "setup", camel |-> c, steps |-> rolls[c],
                    tiles |-> setup_tiles(tiles, position, before, rolls, 1),
                    position |-> pos_before]
        /\ placed' = camels
        /\ pc' = "idle"
        /\ UNCHANGED <<camels, betVars, turnVars, calcVars, money, bank,
                       starting_player_index, current_player_index,
                       current_round, game_finished, winner, turn_count, hist>>

\* main.run_initial_setup
RunInitialSetup ==
    \E order \in SetupOrders, rolls \in [AllCamels -> colored_faces] :
       run_initial_setup(order, rolls)

\* GameManager.play_round up to the call of _execute_turn_based_leg, called
\* by the loop of main() while the game is not finished
PlayRound ==
    /\ pc = "idle"
    /\ ~game_finished
    /\ current_round < MaxRounds
    /\ current_round' = current_round + 1
    /\ used_dice' = {}
    /\ leg_ended' = FALSE
    /\ turn_count' = 0
    /\ pc' = "loop"
    /\ UNCHANGED <<boardVars, betVars, leg_dice_history, last_pyramid_player,
                   available_tickets, pyramid_tickets, sp_tiles, ret, money, bank,
                   starting_player_index, current_player_index, game_finished,
                   winner, hist, calcVars>>

\* GameManager._execute_turn_based_leg and the rest of play_round: one
\* iteration of the loop while its condition holds, _resolve_game_end when
\* the iteration found a winner, _resolve_round_end when the loop is left
ExecuteTurnBasedLeg ==
    /\ pc \in {"loop", "turn_done", "leg_over"}
    /\ IF pc = "turn_done"
       THEN after_turn
       ELSE IF pc = "loop" /\ leg_continues
            THEN take_turn
            ELSE /\ resolve_round_end
                 /\ pc' = "idle"
    /\ UNCHANGED calcVars

Next == RunInitialSetup \/ PlayRound \/ ExecuteTurnBasedLeg

Spec == Init /\ [][Next]_vars

(***************************************************************************)
(* Legs and the end of the race                                            *)
(***************************************************************************)
\* C5: the end-of-leg resolution runs only when exactly six dice have been
\* drawn in the leg, and no leg sees a seventh die: whenever
\* _resolve_round_end has run, the leg it closed had six dice drawn.
C5_LegResolvedAfterSixDice ==
    /\ hist.round_ends > 0 => hist.dice_drawn = dice_per_leg
    /\ Cardinality(used_dice) <= dice_per_leg

\* C6: a leg in which the race does not end reaches the leg-ended state:
\* whenever a leg has been carried to its resolution without the game being
\* finished, leg_ended was true when the loop was left.
C6_LegEndedReached ==
    (hist.round_ends > 0 /\ ~game_finished) => hist.leg_ended

C39_RaceNotOverAfterSetup ==
    /\ (pc = "idle" /\ placed = camels /\ current_round = 0) =>
           ~is_finished(tiles)
    /\ (pc = "idle" /\ current_round = 1) => turn_count > 0

MaxCalls == 6

\* the rolls of the setups the turn actions start from
SetupRolls == {[c \in AllCamels |-> 1], [c \in AllCamels |-> 2]}

\* run_initial_setup, dice in the order White, Black, Red .. Purple
SetupGame ==
    \E rolls \in SetupRolls :
       run_initial_setup(<<"White", "Black", "Red", "Blue", "Green", "Yellow",
                           "Purple">>, rolls)

\* the race cards the players choose from
RaceCards == {<<"race_winner", "Red">>, <<"race_loser", "Blue">>}

\* TurnManager.execute_action_4(player, bet_choice)
TakeRaceCard ==
    /\ pc = "idle"
    /\ hist.turns < MaxCalls
    /\ \E p \in Players, bet_choice \in RaceCards :
          execute_action_4(p, bet_choice[1], bet_choice[2])
    /\ hist' = [hist EXCEPT !.turns = @ + 1]
    /\ UNCHANGED <<money, bank, starting_player_index, current_player_index,
                   current_round, game_finished, winner, turn_count, pc, calcVars>>

\* GameManager._resolve_round_end
LegResolved ==
    /\ pc = "idle"
    /\ hist.round_ends < MaxRounds
    /\ resolve_round_end
    /\ UNCHANGED <<pc, calcVars>>

RaceNext == SetupGame \/ TakeRaceCard \/ LegResolved

SpecRace == Init /\ [][RaceNext]_vars

\* the race tokens (finish cards) player p has lying in the decks
TokensOf(p) ==
    Cardinality({i \in 1..Len(bets) :
        /\ bets[i].player_name = p
        /\ \E c \in ForwardCamels :
              \/ PositionIn(race_winner_decks[c], i) # 0
              \/ PositionIn(race_loser_decks[c], i) # 0})

\* C11: every player always has between 0 and 5 finish cards, and the cards
\* left plus the tokens the player has in the decks make 5; a race bet placed
\* with no card left fails and leaves decks, player and bet lists as they were.
C11_FinishCardsAccounted ==
    /\ \A p \in Players :
          /\ finish_cards_remaining[p] \in 0..finish_cards
          /\ TokensOf(p) + finish_cards_remaining[p] = finish_cards
    /\ (bet_last.op = "place" /\ ~bet_last.ok) =>
          /\ ~ret.ok
          /\ bets = bet_last.bets
          /\ active_bets = bet_last.active
          /\ race_winner_decks = bet_last.wdecks
          /\ race_loser_decks = bet_last.ldecks
          /\ finish_cards_remaining = bet_last.cards
          /\ player_bets = bet_last.player_bets

\* a player with five tokens in the decks and no card left was refused a
\* sixth race bet
C11_Witness ==
    /\ bet_last.op = "place"
    /\ ~bet_last.ok
    /\ \E p \in Players :
          finish_cards_remaining[p] = 0 /\ TokensOf(p) = finish_cards

(***************************************************************************)
(* Pyramid tickets: execute_action_3 called by any player, legs resolved   *)
(***************************************************************************)
\* the order in which the dice come out of the pyramid in these runs
DrawOrder == <<"Red", "Blue", "Green", "Yellow", "Purple", "BW">>

\* the die random.choice picks: the first one of DrawOrder still available
NextDie(used) ==
    DrawOrder[CHOOSE i \in 1..Len(DrawOrder) :
                 /\ DrawOrder[i] \notin used
                 /\ \A j \in 1..(i - 1) : DrawOrder[j] \in used]

\* the faces the dice show in these runs
DrawFaces == {2}

\* TurnManager.execute_action_3(player)
TakePyramidTicket ==
    /\ pc = "idle"
    /\ ~game_finished
    /\ hist.turns < MaxCalls
    /\ \E p \in Players : execute_action_3(p)
    /\ used_dice' # used_dice =>
          /\ NextDie(used_dice) \in used_dice'
          /\ leg_dice_history'[Len(leg_dice_history')][2] \in DrawFaces
    /\ hist' = [hist EXCEPT !.turns = @ + 1, !.last_taker = LastTaker]
    /\ UNCHANGED <<money, bank, starting_player_index, current_player_index,
                   current_round, game_finished, winner, turn_count, pc, calcVars>>

\* GameManager.play_round once a winner is returned: _resolve_game_end
RaceResolved ==
    /\ pc = "idle"
    /\ ~game_finished
    /\ get_winning_camel(tiles) # None
    /\ resolve_game_end
    /\ UNCHANGED <<pc, calcVars>>

PyramidNext == SetupGame \/ TakePyramidTicket \/ LegResolved \/ RaceResolved

SpecPyramid == Init /\ [][PyramidNext]_vars

\* a step that is a call of execute_action_3 on an empty pool
EmptyPoolCall ==
    /\ ~can_take_ticket(available_tickets)
    /\ hist'.turns = hist.turns + 1

\* C12: at most 5 pyramid tickets are taken in a leg: available_tickets
\* stays in 0..5, the tickets the players hold add up to 5 minus
\* available_tickets, and a call of execute_action_3 on an empty pool
\* returns failure and changes nothing.
C12_PyramidPoolAccounted ==
    /\ [](/\ available_tickets \in 0..pyramid_pool
          /\ SumUpTo(pyramid_tickets, NumPlayers - 1)
                = pyramid_pool - available_tickets)
    /\ [][EmptyPoolCall =>
            /\ ~ret'.ok
            /\ UNCHANGED <<boardVars, betVars, used_dice, leg_dice_history,
                           leg_ended, last_pyramid_player, available_tickets,
                           pyramid_tickets, sp_tiles, money, bank,
                           starting_player_index, current_player_index,
                           current_round, game_finished, winner>>]_vars

\* the pool is empty, the players hold its five tickets and a further call
\* was refused
C12_Witness ==
    /\ available_tickets = 0
    /\ SumUpTo(pyramid_tickets, NumPlayers - 1) = pyramid_pool
    /\ ~ret.ok
    /\ ret.msg = "No pyramid tickets available"

\* the state a leg's resolution has just produced
JustResolved == hist.end_kind # "none" /\ hist.turns = hist.turns_at_end

\* C13: every pyramid ticket is redeemed once, for 1 unit, when its leg
\* ends, whatever way the leg ends: right after a leg is resolved (by
\* _resolve_round_end or by _resolve_game_end; no bet is open in these runs)
\* every player holds no ticket and has the balance from before the
\* resolution plus one unit per ticket then held.
C13_TicketsRedeemedAtLegEnd ==
    JustResolved =>
        \A p \in Players :
            /\ pyramid_tickets[p] = 0
            /\ money[p] = hist.money_before[p] + hist.tickets_before[p]

\* C14: after a leg resolves, starting_player_index is the index of the
\* player who took the leg's last pyramid ticket minus 1, modulo the number
\* of players; with no ticket taken in the leg it is unchanged.
C14_StartingPlayerRotates ==
    (JustResolved /\ hist.end_kind = "round") =>
        starting_player_index =
            IF hist.taker_before # NoPlayer
            THEN (hist.taker_before - 1) % NumPlayers
            ELSE hist.start_before

\* a leg in which tickets were taken was resolved and the marker moved
C14_Witness ==
    /\ JustResolved
    /\ hist.end_kind = "round"
    /\ hist.taker_before # NoPlayer
    /\ starting_player_index # hist.start_before
    /\ hist.round_ends = 2

\* C33: at a leg boundary all the state of the leg is reset: when
\* _resolve_round_end has closed a leg, no die is recorded as drawn (used_dice
\* and leg_dice_history are empty), leg_ended is false, no last pyramid
\* player is recorded, the pyramid pool is back to 5 and every player holds
\* no pyramid ticket.
C33_LegStateReset ==
    (JustResolved /\ hist.end_kind = "round") =>
        /\ used_dice = {}
        /\ leg_dice_history = <<>>
        /\ ~leg_ended
        /\ last_pyramid_player = NoPlayer
        /\ available_tickets = pyramid_pool
        /\ \A p \in Players : pyramid_tickets[p] = 0

\* C37: the dice drawn in a leg are as many as the pyramid tickets taken in
\* it (len(used_dice) = 5 - available_tickets), a ticket taken draws a die
\* that was not drawn before, whenever the pyramid action is offered (a
\* ticket can be taken) a die is undrawn, and execute_action_3 never fails with 'No dice available to
\* roll'.
C37_DiceMatchTickets ==
    /\ [](/\ Cardinality(used_dice) = pyramid_pool - available_tickets
          /\ (can_take_ticket(available_tickets)
                => get_available_dice(used_dice) # {})
          /\ ret.msg # "No dice available to roll")
    /\ [][available_tickets' = available_tickets - 1 =>
              \E color \in get_available_dice(used_dice) :
                  used_dice' = used_dice \cup {color}]_vars

\* in a second leg all five tickets are taken and five dice are drawn, and
\* one more call is refused for want of a ticket
C37_Witness ==
    /\ hist.round_ends > 0
    /\ available_tickets = 0
    /\ Cardinality(used_dice) = dice_per_leg - 1
    /\ get_available_dice(used_dice) # {}
    /\ ~ret.ok
    /\ ret.msg = "No pyramid tickets available"

(***************************************************************************)
(* Turns and legs: next_turn, execute_action_3 and _resolve_round_end      *)
(* called in any order                                                     *)
(***************************************************************************)
\* TurnManager.next_turn()
NextTurn ==
    /\ pc = "idle"
    /\ ~game_finished
    /\ hist.turns < MaxCalls
    /\ current_player_index' = next_turn(current_player_index)
    /\ hist' = [hist EXCEPT !.turns = @ + 1]
    /\ UNCHANGED <<boardVars, betVars, turnVars, calcVars, money, bank,
                   starting_player_index, current_round, game_finished, winner,
                   turn_count, pc>>

TurnsNext == SetupGame \/ NextTurn \/ TakePyramidTicket \/ LegResolved

SpecTurns == Init /\ [][TurnsNext]_vars

\* C38: every leg begins with the starting player to move: when
\* _resolve_round_end has closed a leg, the player the next leg awaits first
\* is the starting player, also when no pyramid ticket was taken in the leg
\* closed.
C38_LegBeginsWithStartingPlayer ==
    (JustResolved /\ hist.end_kind = "round") =>
        current_player_index = starting_player_index

(***************************************************************************)
(* Spectator tiles: execute_action_2 called by any player with any slot    *)
(***************************************************************************)
\* the slots the players ask for: the start, slot 1, the slots next to the
\* camels after the setup, and the finish
TilePositions == {0, 1, 2, 3, 4, track_length}

\* TurnManager.execute_action_2(player, position, side)
PlaceSpectatorTile ==
    /\ pc = "idle"
    /\ \E p \in Players, pos \in TilePositions, side \in TileSides :
          execute_action_2(p, pos, side)
    /\ UNCHANGED <<managerVars, calcVars>>

TilesNext == SetupGame \/ PlaceSpectatorTile \/ TakePyramidTicket

SpecTiles == Init /\ [][TilesNext]_vars

\* C15: after any sequence of execute_action_2 calls every slot carries at
\* most one spectator tile, no tile lies on slot 0, slot 1 or the finish
\* slot, and every player owns at most one tile.
C15_TilesWellPlaced ==
    /\ \A i, j \in 1..Len(sp_tiles) :
          i # j => /\ sp_tiles[i].position # sp_tiles[j].position
                   /\ sp_tiles[i].player_name # sp_tiles[j].player_name
    /\ \A i \in 1..Len(sp_tiles) :
          sp_tiles[i].position \in 2..(track_length - 1)

\* every player has a tile on the board and the last call relocated one
C15_Witness ==
    /\ Len(sp_tiles) = NumPlayers
    /\ ret.ok
    /\ ret.msg = "Moved tile"

\* the tile the successful call of execute_action_2 just put down
TileJustPlaced == ret.ok /\ ret.msg \in {"Placed tile", "Moved tile"}

\* C16: execute_action_2 succeeds only when the target slot holds no camel
\* and no spectator tile and is unrestricted; a placement or relocation onto
\* a slot occupied by camels is rejected.
C16_TileOnlyOnEmptySlot ==
    TileJustPlaced =>
        LET tile == sp_tiles[Len(sp_tiles)]
        IN  /\ tiles[tile.position] = <<>>
            /\ tile.position \in 2..(track_length - 1)
            /\ \A i \in 1..(Len(sp_tiles) - 1) :
                  sp_tiles[i].position # tile.position

\* SpectatorTile.get_movement_modifier
get_movement_modifier(side) == IF side = "cheering" THEN 1 ELSE -1

\* C17: when a pyramid-ticket move lands a stack on a slot that carries a
\* spectator tile, the stack ends one slot further (cheering) or one slot
\* back (booing), the owner of the tile is paid and the bank pays.
C17_TileAppliedOnLanding ==
    (ret.ok /\ ret.msg = "Took pyramid ticket" /\ last.op = "move") =>
        LET landing == with_stack_new_pos(last.camel, last.position[last.camel],
                                          last.steps)
        IN  \A i \in 1..Len(sp_tiles) :
               sp_tiles[i].position = landing =>
                  /\ position[last.camel]
                        = landing + get_movement_modifier(sp_tiles[i].side)
                  /\ money[sp_tiles[i].player_name] > starting_money
                  /\ bank < bank_start

(***************************************************************************)
(* Probability calculator                                                  *)
(***************************************************************************)
\* Dice.colored_faces and Dice.bw_faces, as the lists they are
colored_faces_list == <<1, 1, 2, 2, 3, 3>>

bw_faces_list == <<<<1, "White">>, <<2, "White">>, <<3, "White">>,
                   <<1, "Black">>, <<2, "Black">>, <<3, "Black">>>>

\* Dice.get_available_dice as the list it returns
DiceOrder == <<"Red", "Blue", "Green", "Yellow", "Purple", "BW">>

available_dice_list(undrawn) == SelectSeq(DiceOrder, LAMBDA d : d \in undrawn)

\* calculate_possible_outcomes: the scenarios it goes through for one die,
\* each with the camel it moves and the count it adds
OneCountPerValue(dice_color) ==
    IF dice_color = "BW"
    THEN [i \in 1..Len(bw_faces_list) |->
            [die |-> "BW", steps |-> bw_faces_list[i][1],
             camel |-> bw_faces_list[i][2], weight |-> 1]]
    ELSE [i \in 1..3 |->
            [die |-> dice_color, steps |-> i, camel |-> dice_color, weight |-> 1]]

die_scenarios(dice_color) ==
    IF dice_color = "BW"
    THEN [i \in 1..Len(bw_faces_list) |->
            [die |-> "BW", steps |-> bw_faces_list[i][1],
             camel |-> bw_faces_list[i][2], weight |-> 1]]
    ELSE [i \in 1..3 |->
            [die |-> dice_color, steps |-> i, camel |-> dice_color, weight |-> 2]]

RECURSIVE all_scenarios(_, _)
all_scenarios(available_dice, k) ==
    IF k > Len(available_dice) THEN <<>>
    ELSE die_scenarios(available_dice[k]) \o all_scenarios(available_dice, k + 1)

\* ProbabilityCalculator._get_leading_normal_camel
HasForward(stack) == \E i \in 1..Len(stack) : ~moves_backward(stack[i])

TopForward(stack) ==
    stack[CHOOSE i \in 1..Len(stack) :
             /\ ~moves_backward(stack[i])
             /\ \A j \in (i + 1)..Len(stack) : moves_backward(stack[j])]

get_leading_normal_camel(t) ==
    IF \A sl \in Slots : ~HasForward(t[sl])
    THEN None
    ELSE TopForward(t[CHOOSE sl \in Slots :
                        /\ HasForward(t[sl])
                        /\ \A u \in Slots : u > sl => ~HasForward(t[u])])

\* the board and the camels the game holds
World == [tiles |-> tiles, position |-> position, used_dice |-> used_dice]

\* _simulate_move: the board the move is made on.  deepcopy gives a board
\* of its own, with camels of its own.
AliasLive == "live"

board_copy == "copy"

\* Board.move_camel_with_stack called on board `ref` of the heap with the
\* camel object of the game: the slot is read from the game's camel, the
\* stack and the camels written are those of the board called
move_on(heap, ref, c, steps) ==
    LET moved == move_camel_with_stack_position(heap[ref].tiles,
                                                heap.live.position, c, steps)
    IN  [heap EXCEPT ![ref] =
            [@ EXCEPT
               !.tiles = move_camel_with_stack_tiles(heap[ref].tiles,
                                                     heap.live.position, c, steps),
               !.position = [x \in DOMAIN @ |->
                               IF moved[x] # heap.live.position[x]
                               THEN moved[x] ELSE @[x]]]]

\* ProbabilityCalculator._simulate_move: the game after the call and the
\* leader it returns
SimulateOnLiveBoard(w, sc) ==
    LET heap == [live |-> w, copy |-> w]
        moved == move_on(heap, "live", sc.camel, sc.steps)
    IN  [live |-> moved.live,
         leader |-> get_leading_normal_camel(moved.live.tiles)]

simulate_move(w, sc) ==
    LET heap == [live |-> w, copy |-> w]
        moved == move_on(heap, board_copy, sc.camel, sc.steps)
    IN  [live |-> moved.live,
         leader |-> get_leading_normal_camel(moved[board_copy].tiles)]

RECURSIVE run_scenarios(_, _, _, _)
\* the loop over the scenarios from the k-th on: the game after it and the
\* leaders found
run_scenarios(w, scs, k, leaders) ==
    IF k > Len(scs) THEN [live |-> w, leaders |-> leaders]
    ELSE LET r == simulate_move(w, scs[k])
         IN  run_scenarios(r.live, scs, k + 1, Append(leaders, r.leader))

RECURSIVE count_leading(_, _, _, _)
\* leading_counts[c]: the weights of the scenarios whose leader is c
count_leading(scs, leaders, c, k) ==
    IF k > Len(scs) THEN 0
    ELSE (IF leaders[k] = c /\ ~moves_backward(c) THEN scs[k].weight ELSE 0)
         + count_leading(scs, leaders, c, k + 1)

\* ProbabilityCalculator.calculate_possible_outcomes(available_dice): what
\* it returns (per scenario the leader, the counts, total_scenarios) and the
\* game it leaves
calculate_possible_outcomes(w, available_dice) ==
    LET scs == all_scenarios(available_dice, 1)
        r == run_scenarios(w, scs, 1, <<>>)
    IN  [live |-> r.live,
         scenarios |-> scs,
         leaders |-> r.leaders,
         leading_counts |-> [c \in AllCamels |-> count_leading(scs, r.leaders, c, 1)],
         total_scenarios |-> Len(available_dice) * 6]

NoOutcomes == [scenarios |-> <<>>, leaders |-> <<>>,
               leading_counts |-> [c \in AllCamels |-> 0],
               total_scenarios |-> 0]

Outcomes(r) == [scenarios |-> r.scenarios, leaders |-> r.leaders,
                leading_counts |-> r.leading_counts,
                total_scenarios |-> r.total_scenarios]

\* calculate_possible_outcomes called with a non-empty set of undrawn dice
QueryOdds ==
    /\ pc = "idle"
    /\ \E undrawn \in (SUBSET get_available_dice(used_dice)) \ {{}} :
          \E r \in {calculate_possible_outcomes(World, available_dice_list(undrawn))} :
              /\ tiles' = r.live.tiles
              /\ position' = r.live.position
              /\ used_dice' = r.live.used_dice
              /\ ret' = [ok |-> TRUE, msg |-> "outcomes",
                         dice |-> available_dice_list(undrawn),
                         before |-> World, first |-> Outcomes(r),
                         again |-> FALSE, second |-> NoOutcomes]
    /\ UNCHANGED <<camels, placed, last, betVars, leg_dice_history, leg_ended,
                   last_pyramid_player, available_tickets, pyramid_tickets,
                   sp_tiles, managerVars, calcVars>>

\* the same query once more, nothing having happened in between
QueryOddsAgain ==
    /\ pc = "idle"
    /\ ret.msg = "outcomes"
    /\ ~ret.again
    /\ \E r \in {calculate_possible_outcomes(World, ret.dice)} :
           /\ tiles' = r.live.tiles
           /\ position' = r.live.position
           /\ used_dice' = r.live.used_dice
           /\ ret' = [ret EXCEPT !.again = TRUE, !.second = Outcomes(r)]
    /\ UNCHANGED <<camels, placed, last, betVars, leg_dice_history, leg_ended,
                   last_pyramid_player, available_tickets, pyramid_tickets,
                   sp_tiles, managerVars, calcVars>>

\* the setup rolls of the games queried: camels spread out, camels in
\* stacks, all camels in one stack
OddsRolls ==
    {[c \in AllCamels |-> 2],
     ("Red" :> 1) @@ ("Blue" :> 2) @@ ("Green" :> 3) @@ ("Yellow" :> 1) @@
     ("Purple" :> 2) @@ ("White" :> 1) @@ ("Black" :> 2),
     ("Red" :> 3) @@ ("Blue" :> 3) @@ ("Green" :> 1) @@ ("Yellow" :> 2) @@
     ("Purple" :> 1) @@ ("White" :> 3) @@ ("Black" :> 1)}

SetupOdds ==
    \E rolls \in OddsRolls :
        run_initial_setup(<<"White", "Black", "Red", "Blue", "Green", "Yellow", "Purple">>,
                          rolls)

OddsNext == SetupOdds \/ TakePyramidTicket \/ QueryOdds \/ QueryOddsAgain

SpecOdds == Init /\ [][OddsNext]_vars

\* how many scenarios of the list are for die d with face f
Visits(scs, d, f) ==
    Cardinality({i \in 1..Len(scs) : scs[i].die = d /\ <<scs[i].steps, scs[i].camel>> = f})

\* how many sides of die d show face f
Sides(d, f) ==
    IF d = "BW"
    THEN Cardinality({i \in 1..Len(bw_faces_list) : bw_faces_list[i] = f})
    ELSE Cardinality({i \in 1..Len(colored_faces_list) :
                        <<colored_faces_list[i], d>> = f})

FacesOf(d) == {f \in colored_faces \X AllCamels : Sides(d, f) > 0}

RECURSIVE SumCounts(_, _)
SumCounts(counts, cs) ==
    IF cs = {} THEN 0
    ELSE LET c == CHOOSE x \in cs : TRUE
         IN  counts[c] + SumCounts(counts, cs \ {c})

\* C18: a query for a non-empty set of undrawn dice goes through each
\* distinct face of each of these dice exactly once and through no other
\* scenario, counts a face as often as the die has sides showing it (2 for
\* a colored die, 1 for the BW die), and the leading counts add up to 6
\* times the number of dice, the total the probabilities are taken over
C18_OddsSumToOne ==
    ret.msg = "outcomes" =>
        LET scs == ret.first.scenarios
        IN  /\ \A i \in 1..Len(scs) :
                  /\ \E k \in 1..Len(ret.dice) : ret.dice[k] = scs[i].die
                  /\ <<scs[i].steps, scs[i].camel>> \in FacesOf(scs[i].die)
                  /\ scs[i].weight = Sides(scs[i].die, <<scs[i].steps, scs[i].camel>>)
            /\ \A k \in 1..Len(ret.dice) : \A f \in FacesOf(ret.dice[k]) :
                  Visits(scs, ret.dice[k], f) = 1
            /\ \A k \in 1..Len(ret.dice) :
                  Cardinality(FacesOf(ret.dice[k])) = IF ret.dice[k] = "BW" THEN 6 ELSE 3
            /\ SumCounts(ret.first.leading_counts, AllCamels) = 6 * Len(ret.dice)
            /\ ret.first.total_scenarios = 6 * Len(ret.dice)

C18_Witness ==
    /\ ret.msg = "outcomes"
    /\ Len(ret.dice) = 3
    /\ \E k \in 1..Len(ret.dice) : ret.dice[k] = "BW"
    /\ used_dice # {}
    /\ Cardinality({c \in AllCamels : ret.first.leading_counts[c] > 0}) >= 2

\* C19: a query leaves the game as it was: every slot stack of the board,
\* every camel's position and the drawn dice are those of before the call
C19_QueryLeavesGameUnchanged ==
    ret.msg = "outcomes" =>
        /\ tiles = ret.before.tiles
        /\ position = ret.before.position
        /\ used_dice = ret.before.used_dice

C19_Witness ==
    /\ ret.msg = "outcomes"
    /\ ~ret.again
    /\ Len(ret.dice) >= 2
    /\ used_dice # {}
    /\ \E sl \in Slots : Len(tiles[sl]) >= 2
    /\ \E i \in 1..Len(ret.first.leaders) :
          ret.first.leaders[i] # get_leading_normal_camel(tiles)

\* C20: the same query made twice in a row gives the same leader for each
\* scenario and the same count for each camel
C20_QueryTwiceSameAnswer ==
    (ret.msg = "outcomes" /\ ret.again) =>
        /\ ret.second.scenarios = ret.first.scenarios
        /\ ret.second.leaders = ret.first.leaders
        /\ ret.second.leading_counts = ret.first.leading_counts
        /\ ret.second.total_scenarios = ret.first.total_scenarios

C20_Witness ==
    /\ ret.msg = "outcomes"
    /\ ret.again
    /\ Len(ret.dice) >= 2
    /\ Cardinality({ret.second.leaders[i] : i \in 1..Len(ret.second.leaders)}) >= 2

\* C31: for every (die, face) scenario of a query, the camel the calculator
\* reports as leading is the camel Board.get_winning_camel returns on the
\* board the move gives, the camel _resolve_round_end takes as leg winner.
C31_LeaderIsWinningCamel ==
    ret.msg = "outcomes" =>
        \A k \in 1..Len(ret.first.scenarios) :
            LET sc == ret.first.scenarios[k]
                after == move_camel_with_stack_tiles(ret.before.tiles,
                                                     ret.before.position,
                                                     sc.camel, sc.steps)
            IN  ret.first.leaders[k] = get_winning_camel(after)

(***************************************************************************)
(* Leg-winner tickets                                                      *)
(***************************************************************************)
MaxLegCalls == 4

\* the camels tickets are taken for
LegCamels == {"Green", "Purple", "Red"}

\* the player whose turn it is: the players take turns
TurnPlayer == hist.turns % NumPlayers

\* _execute_selected_action, action 1: the bet_choice is one of the
\* available_bets of the descriptor, (leg_winner, camel, top ticket value)
TakeLegTicket ==
    /\ pc = "idle"
    /\ ~game_finished
    /\ hist.turns < MaxLegCalls
    /\ \E c \in get_available_leg_bets \cap LegCamels :
          execute_action_1(TurnPlayer, c, leg_winner_tickets[c][1])
    /\ hist' = [hist EXCEPT !.turns = @ + 1]
    /\ UNCHANGED <<money, bank, starting_player_index, current_player_index,
                   current_round, game_finished, winner, turn_count, pc, calcVars>>

\* the last ticket value the pool of a camel offered
last_ticket_value == 2

\* execute_action_1 called with a bet_choice for a camel whose tickets are
\* all taken
TakeSoldOutTicket ==
    /\ pc = "idle"
    /\ ~game_finished
    /\ hist.turns < MaxLegCalls
    /\ \E c \in LegCamels :
          /\ leg_winner_tickets[c] = <<>>
          /\ execute_action_1(TurnPlayer, c, last_ticket_value)
    /\ hist' = [hist EXCEPT !.turns = @ + 1]
    /\ UNCHANGED <<money, bank, starting_player_index, current_player_index,
                   current_round, game_finished, winner, turn_count, pc, calcVars>>

LegNext == SetupOdds \/ TakeLegTicket \/ LegResolved \/ RaceResolved

SpecLeg == Init /\ [][LegNext]_vars

LegApiNext == SetupOdds \/ TakeLegTicket \/ TakeSoldOutTicket \/ LegResolved

SpecLegApi == Init /\ [][LegApiNext]_vars

\* C25: taking a leg-winner ticket for a camel with no ticket left fails:
\* execute_action_1 returns False with a reason and place_bet records no
\* bet, neither for the player nor in the betting manager
C25_SoldOutTicketRefused ==
    [][TakeSoldOutTicket =>
          /\ ~ret'.ok
          /\ ret'.msg # ""
          /\ UNCHANGED <<bets, active_bets, player_bets>>]_vars

\* the ticket values of the unresolved leg-winner bets on camel c, in the
\* order the bets were placed
LegTicketsOut(c) ==
    LET on_c == SelectSeq(active_bets,
                          LAMBDA i : bets[i].bet_type = "leg_winner" /\ bets[i].target = c)
    IN  [k \in 1..Len(on_c) |-> bets[on_c[k]].ticket_value]

leg_rank(c) ==
    1 + Cardinality({d \in (camels \cap ForwardCamels) \ {c} :
            \/ position[d] > position[c]
            \/ /\ position[d] = position[c]
               /\ PositionIn(tiles[position[d]], d) > PositionIn(tiles[position[c]], c)})

RECURSIVE settle_by_rank(_, _, _)
\* the balances after the bets of done are settled by leg_rank, in list order
settle_by_rank(m, done, k) ==
    IF k > Len(done) THEN m
    ELSE LET b == bets[done[k]]
         IN  settle_by_rank(
                 [m EXCEPT ![b.player_name] =
                     receive_payout(@, calculate_leg_payout(b.ticket_value,
                                                            leg_rank(b.target)))],
                 done, k + 1)

\* C28: when _resolve_round_end resolves a leg, every leg bet is settled
\* against the finishing order of the racing camels (by slot, higher in the
\* stack first): a bet on the 1st camel gets its ticket value, on the 2nd gets
\* 1, on any other -1, and the owners' balances change by these amounts,
\* never going below 0 (pyramid tickets add 1 each).
C28_LegBetsSettledByRanking ==
    [][hist'.round_ends = hist.round_ends + 1 =>
          LET done == leg_bets_to_resolve(bets, active_bets)
          IN  /\ \A k \in 1..Len(done) :
                    /\ bets'[done[k]].resolved
                    /\ bets'[done[k]].has_leg_payout
                    /\ bets'[done[k]].leg_payout =
                          calculate_leg_payout(bets[done[k]].ticket_value,
                                               leg_rank(bets[done[k]].target))
              /\ money' = collect_pyramid_payouts(settle_by_rank(money, done, 1),
                                                  pyramid_tickets)]_vars

\* C30: every leg bet placed is resolved when its leg ends: right after a
\* resolution, by _resolve_round_end or by _resolve_game_end, no leg bet is
\* left unresolved or without a payout value.
C30_LegBetsAlwaysResolved ==
    JustResolved =>
        \A i \in DOMAIN bets :
            bets[i].bet_type = "leg_winner" =>
                /\ bets[i].resolved
                /\ bets[i].has_leg_payout
                /\ PositionIn(resolved_bets, i) # 0
                /\ PositionIn(active_bets, i) = 0

(***************************************************************************)
(* The end of the race: race cards taken, then _resolve_game_end           *)
(***************************************************************************)
\* the number of race cards a run is followed through
MaxFinishCalls == 3

\* the race cards the players choose from
FinishCards == {<<"race_winner", "Purple">>, <<"race_winner", "Red">>,
                <<"race_loser", "Red">>, <<"race_loser", "Yellow">>}

\* TurnManager.execute_action_4(player, bet_choice), the players in turn
TakeFinishCard ==
    /\ pc = "idle"
    /\ ~game_finished
    /\ hist.turns < MaxFinishCalls
    /\ \E bet_choice \in FinishCards :
          execute_action_4(TurnPlayer, bet_choice[1], bet_choice[2])
    /\ hist' = [hist EXCEPT !.turns = @ + 1]
    /\ UNCHANGED <<money, bank, starting_player_index, current_player_index,
                   current_round, game_finished, winner, turn_count, pc, calcVars>>

FinishNext == SetupOdds \/ TakeFinishCard \/ RaceResolved

SpecFinish == Init /\ [][FinishNext]_vars

\* the racing camel that is last on the board: the lowest racing camel of the
\* rearmost slot that holds one
last_racing_camel ==
    CHOOSE c \in camels \cap ForwardCamels :
        leg_rank(c) = Cardinality(camels \cap ForwardCamels)

\* C29: at race end the winner deck that pays is the deck of the camel that
\* finished first, the top camel of the furthest occupied slot, which is the
\* winner the GameManager reports; the loser deck that pays is the deck of the
\* racing camel that is last, the bottom one of the rearmost slot, also when
\* camels share a slot.
C29_DecksOfFirstAndLastPay ==
    (JustResolved /\ hist.end_kind = "game") =>
        /\ winner = get_winning_camel(tiles)
        /\ \A i \in DOMAIN bets :
              /\ bets[i].bet_type = "race_winner" =>
                    (bets[i].won <=> bets[i].target = winner)
              /\ bets[i].bet_type = "race_loser" =>
                    (bets[i].won <=> bets[i].target = last_racing_camel)

(***************************************************************************)
(* The players' balances: every action that leads to a payout, then the    *)
(* resolutions that pay                                                    *)
(***************************************************************************)
\* the number of actions taken before the resolutions
MaxMoneyCalls == 4

\* the setup rolls of these runs: the racing camels in one stack, and spread
\* over three slots with Red behind
MoneyRolls ==
    {[c \in AllCamels |-> 2],
     ("Red" :> 1) @@ ("Blue" :> 2) @@ ("Green" :> 3) @@ ("Yellow" :> 1) @@
     ("Purple" :> 2) @@ ("White" :> 1) @@ ("Black" :> 2)}

\* main.run_initial_setup, dice in the order White, Black, Red .. Purple
SetupMoney ==
    \E rolls \in MoneyRolls :
        run_initial_setup(<<"White", "Black", "Red", "Blue", "Green", "Yellow", "Purple">>,
                          rolls)

\* the race cards the players choose from
MoneyCards == {<<"race_winner", "Red">>, <<"race_loser", "Red">>}

\* TurnManager.execute_action_4(player, bet_choice), by any player
MoneyRaceCard ==
    /\ pc = "idle"
    /\ ~game_finished
    /\ hist.turns < MaxMoneyCalls
    /\ \E p \in Players, bet_choice \in MoneyCards :
          execute_action_4(p, bet_choice[1], bet_choice[2])
    /\ hist' = [hist EXCEPT !.turns = @ + 1]
    /\ UNCHANGED <<money, bank, starting_player_index, current_player_index,
                   current_round, game_finished, winner, turn_count, pc, calcVars>>

\* TurnManager.execute_action_3(player), the players in turn
MoneyTicket ==
    /\ pc = "idle"
    /\ ~game_finished
    /\ hist.turns < MaxMoneyCalls
    /\ execute_action_3(TurnPlayer)
    /\ used_dice' # used_dice =>
          /\ NextDie(used_dice) \in used_dice'
          /\ leg_dice_history'[Len(leg_dice_history')][2] \in DrawFaces
    /\ hist' = [hist EXCEPT !.turns = @ + 1, !.last_taker = LastTaker]
    /\ UNCHANGED <<money, bank, starting_player_index, current_player_index,
                   current_round, game_finished, winner, turn_count, pc, calcVars>>

\* GameManager._resolve_round_end, for a leg in which a ticket was taken
MoneyLegResolved ==
    /\ available_tickets < pyramid_pool
    /\ LegResolved

MoneyNext ==
    SetupMoney \/ MoneyRaceCard \/ MoneyTicket \/ MoneyLegResolved \/ RaceResolved

SpecMoney == Init /\ [][MoneyNext]_vars

\* the bets of player p that the step settles with a payout
SettledWithPayout(p) ==
    {i \in 1..Len(bets) :
        /\ bets[i].player_name = p
        /\ ~bets[i].resolved
        /\ bets'[i].resolved
        /\ bets'[i].has_payout
        /\ bets'[i].payout # 0}

\* C40: a player's balance is never negative: every payout (leg bet, race
\* bet, spectator tile, pyramid tickets) leaves money >= 0, and a loss
\* applied to a balance of 0 leaves it at 0 - a resolution in which all the
\* payouts of a player are losses of 1 takes that many units from the
\* balance, but not below 0, and any resolution leaves at least the balance
\* plus the payouts.
C40_BalanceNeverNegative ==
    /\ [](\A p \in Players : money[p] >= 0)
    /\ [][\A p \in Players :
             LET paid == SettledWithPayout(p)
                 losses == {i \in paid : bets'[i].payout = -1}
                 gains == {i \in paid : bets'[i].payout > 0}
             IN  /\ (paid # {} /\ gains = {}) =>
                        money'[p] = Max(0, money[p] - Cardinality(losses))
                 /\ (paid # {} /\ losses = {}) => money'[p] > money[p]
                 /\ money'[p] < money[p] => losses # {}]_vars

\* the race is resolved and a player lost more race bets than the balance
\* held and has nothing left
C40_Witness ==
    /\ game_finished
    /\ hist.end_kind = "game"
    /\ \E p \in Players :
          /\ money[p] = 0
          /\ hist.money_before[p] > 0
          /\ Cardinality({i \in 1..Len(bets) :
                 /\ bets[i].player_name = p
                 /\ bets[i].resolved
                 /\ bets[i].has_payout
                 /\ bets[i].payout = -1}) > hist.money_before[p]

(***************************************************************************)
(* The actions offered to a player                                         *)
(***************************************************************************)
\* get_available_actions, action 3: offered while a pyramid ticket is left
PyramidAlwaysOffered(avail) == TRUE

pyramid_action_offered(avail) == can_take_ticket(avail)

\* BettingManager.get_available_leg_bets as (camel, top ticket value) pairs
available_leg_bets == {<<c, leg_winner_tickets[c][1]>> : c \in get_available_leg_bets}

\* TurnManager.get_available_actions(player): the descriptors, each with
\* the ranges it carries
get_available_actions(p) ==
    {[id |-> 1, choices |-> available_leg_bets] :
        x \in {1} \cap {n \in {1} : available_leg_bets # {}}}
    \cup
    {[id |-> 2, choices |-> get_available_positions(sp_tiles, tiles)] :
        x \in {n \in {2} : \/ get_available_positions(sp_tiles, tiles) # {}
                            \/ get_player_tile_position(sp_tiles, p) # 0}}
    \cup
    {[id |-> 3, choices |-> {}] :
        x \in {n \in {3} : pyramid_action_offered(available_tickets)}}
    \cup
    {[id |-> 4, choices |-> ({"race_winner", "race_loser"} \X get_available_race_bets)] :
        x \in {n \in {4} : /\ can_place_race_bet(finish_cards_remaining, p)
                            /\ get_available_race_bets # {}}}

Offered(p, id) == \E d \in get_available_actions(p) : d.id = id

ChoicesOf(p, id) == (CHOOSE d \in get_available_actions(p) : d.id = id).choices

\* _get_player_action / _process_bot_turn: the choices the players make
\* among those of a descriptor
FirstPosition(positions) == CHOOSE pos \in positions : \A q \in positions : pos <= q

\* available_bets[0]: the bet on the first camel of game.camels that has one
FirstBet(available_bets) ==
    CHOOSE b \in available_bets :
        \A q \in available_bets :
            PositionIn(CamelList, b[1]) <= PositionIn(CamelList, q[1])

TurnTaken ==
    /\ hist' = [hist EXCEPT !.turns = @ + 1, !.last_taker = LastTaker]
    /\ UNCHANGED <<money, bank, starting_player_index, current_player_index,
                   current_round, game_finished, winner, turn_count, pc, calcVars>>

\* _execute_selected_action, action 1: the first bet of the descriptor
MaxOffered == 5

OfferedLegTicket ==
    /\ pc = "idle"
    /\ hist.turns < MaxOffered
    /\ Offered(TurnPlayer, 1)
    /\ LET b == FirstBet(ChoicesOf(TurnPlayer, 1))
       IN  execute_action_1(TurnPlayer, b[1], b[2])
    /\ TurnTaken

\* _execute_selected_action, action 2: the first position of the descriptor
OfferedTile ==
    /\ pc = "idle"
    /\ hist.turns < MaxOffered
    /\ Offered(TurnPlayer, 2)
    /\ ChoicesOf(TurnPlayer, 2) # {}
    /\ execute_action_2(TurnPlayer, FirstPosition(ChoicesOf(TurnPlayer, 2)), "cheering")
    /\ TurnTaken

\* _execute_selected_action, action 3
OfferedPyramidTicket ==
    /\ pc = "idle"
    /\ hist.turns < MaxOffered
    /\ Offered(TurnPlayer, 3)
    /\ execute_action_3(TurnPlayer)
    /\ used_dice' # used_dice => /\ NextDie(used_dice) \in used_dice'
                                 /\ leg_dice_history'[Len(leg_dice_history')][2] \in DrawFaces
    /\ TurnTaken

\* _execute_selected_action, action 4
OfferedRaceCard ==
    /\ pc = "idle"
    /\ hist.turns < MaxOffered
    /\ Offered(TurnPlayer, 4)
    /\ \E b \in ChoicesOf(TurnPlayer, 4) \cap RaceCards :
          execute_action_4(TurnPlayer, b[1], b[2])
    /\ TurnTaken

OfferedNext ==
    SetupGame \/ OfferedLegTicket \/ OfferedTile \/ OfferedPyramidTicket
        \/ OfferedRaceCard

SpecOffered == Init /\ [][OfferedNext]_vars

\* the call made for action id of the descriptors with choice x, and its
\* result
Execute(p, id, x, ok) ==
    /\ CASE id = 1 -> execute_action_1(p, x[1], x[2])
         [] id = 2 -> \E side \in TileSides : execute_action_2(p, x, side)
         [] id = 3 -> execute_action_3(p)
         [] id = 4 -> execute_action_4(p, x[1], x[2])
    /\ ret'.ok = ok
    /\ UNCHANGED <<managerVars, calcVars>>

\* C27: every action get_available_actions offers the player to move can be
\* carried out: some choice of the ranges the descriptor carries makes the matching
\* execute_action_N return success in the same state (the pyramid ticket,
\* which carries no range, succeeds whatever die is rolled)
C27_OfferedActionsExecutable ==
    pc = "idle" =>
        \A d \in get_available_actions(TurnPlayer) :
            IF d.id = 3
            THEN /\ ENABLED Execute(TurnPlayer, 3, 0, TRUE)
                 /\ ~ENABLED Execute(TurnPlayer, 3, 0, FALSE)
            ELSE \E x \in d.choices : ENABLED Execute(TurnPlayer, d.id, x, TRUE)

C27_Witness ==
    /\ pc = "idle"
    /\ ~Offered(TurnPlayer, 3)
    /\ Offered(TurnPlayer, 1) /\ Offered(TurnPlayer, 2) /\ Offered(TurnPlayer, 4)

(***************************************************************************)
(* Expected value calculator                                               *)
(***************************************************************************)
\* calculate_leg_bet_evs: position_payouts, and nothing for a position that
\* is not a key of it
ThreeTicketPayouts(next_position) ==
    CASE next_position = 1 -> 5
      [] next_position = 2 -> 3
      [] next_position = 3 -> 2
      [] OTHER -> 0

position_payouts(next_position) ==
    CASE next_position = 1 -> 5
      [] next_position = 2 -> 3
      [] next_position = 3 -> 2
      [] next_position = 4 -> 1
      [] OTHER -> 0

\* the game the calculator holds: its board, its camels and the dice it
\* counts as moved this leg
EvGame(moved) == [tiles |-> tiles, position |-> position, moved_this_leg |-> moved]

\* the dice of a trial: the six colors but those in moved_this_leg
trial_available_dice(g) == SelectSeq(DiceOrder, LAMBDA d : d \notin g.moved_this_leg)

\* list.remove(selected_dice)
RemoveDie(available_dice, d) == SelectSeq(available_dice, LAMBDA x : x # d)

\* calculate_leg_bet_evs: the game a trial works on.  deepcopy gives a game
\* of its own
TrialOnLiveGame == "live"

game_copy == "copy"

\* one die of a trial: roll_bw / roll_colored, move_camel_with_stack on the
\* board of the game worked on, the die added to its moved_this_leg
trial_draw(heap, ref, selected_dice, r) ==
    LET g == heap[ref]
    IN  [heap EXCEPT ![ref] =
            [tiles |-> move_camel_with_stack_tiles(g.tiles, g.position, r[1], r[2]),
             position |-> move_camel_with_stack_position(g.tiles, g.position, r[1], r[2]),
             moved_this_leg |-> g.moved_this_leg \cup {selected_dice}]]

RECURSIVE trial_loop(_, _, _, _, _)
\* the while loop of a trial: every way it can go, as the heap it ends with
\* and the dice it selected, in order
trial_loop(heap, ref, available_dice, dice_rolled, drawn) ==
    IF dice_rolled < Len(available_dice) /\ available_dice # <<>>
    THEN UNION {trial_loop(trial_draw(heap, ref, available_dice[i], r), ref,
                           RemoveDie(available_dice, available_dice[i]),
                           dice_rolled + 1, Append(drawn, available_dice[i])) :
                    <<i, r>> \in {<<j, q>> \in (1..Len(available_dice)) \X (AllCamels \X colored_faces) :
                                    q \in roll_results(available_dice[j])}}
    ELSE {[heap |-> heap, drawn |-> drawn]}

\* the ranking of a trial: its first camel, or None if it is empty
BottomOfFurthestSlot(t) ==
    IF \A sl \in Slots : ~HasForward(t[sl])
    THEN None
    ELSE LET sl == CHOOSE x \in Slots :
                       /\ HasForward(t[x])
                       /\ \A u \in Slots : u > x => ~HasForward(t[u])
             k == CHOOSE i \in 1..Len(t[sl]) :
                       /\ t[sl][i] \in ForwardCamels
                       /\ \A j \in 1..(i - 1) : t[sl][j] \notin ForwardCamels
         IN  t[sl][k]

ranking_first(t) ==
    IF \A sl \in Slots : ~HasForward(t[sl])
    THEN None
    ELSE TopForward(t[CHOOSE sl \in Slots :
                        /\ HasForward(t[sl])
                        /\ \A u \in Slots : u > sl => ~HasForward(t[u])])

\* one trial on game g: every way it can go, as the game after it, the dice
\* it started with, the dice it drew, the camel it found first and what it
\* adds to that camel's result (times num_simulations)
trial(g, positions) ==
    {LET winning_camel == ranking_first(e.heap[game_copy].tiles)
     IN  [live |-> e.heap.live,
          available |-> trial_available_dice(g),
          drawn |-> e.drawn,
          board |-> e.heap[game_copy].tiles,
          winning_camel |-> winning_camel,
          credit |-> IF winning_camel = None THEN 0
                     ELSE position_payouts(positions[winning_camel] + 1)] :
       e \in trial_loop([live |-> g, copy |-> g], game_copy,
                        trial_available_dice(g), 0, <<>>)}

TrialLog(t) == [available |-> t.available, drawn |-> t.drawn, board |-> t.board,
                winning_camel |-> t.winning_camel, credit |-> t.credit]

RECURSIVE simulations(_, _, _, _, _)
\* the trials of calculate_leg_bet_evs still to run: every way they can go
simulations(g, positions, n, trials, results) ==
    IF n = 0 THEN {[live |-> g, trials |-> trials, results |-> results]}
    ELSE UNION {simulations(t.live, positions, n - 1, Append(trials, TrialLog(t)),
                            IF t.winning_camel = None THEN results
                            ELSE [results EXCEPT ![t.winning_camel] = @ + t.credit]) :
                   t \in trial(g, positions)}

\* ExpectedValueCalculator.calculate_leg_bet_evs(num_simulations) on a game
\* with the given moved_this_leg; results holds each camel's sum of payouts,
\* the value returned being that sum divided by num_simulations
calculate_leg_bet_evs(num_simulations, moved) ==
    \E r \in simulations(EvGame(moved), ticket_positions, num_simulations, <<>>,
                         [c \in ForwardCamels |-> 0]) :
        /\ tiles' = r.live.tiles
        /\ position' = r.live.position
        /\ ev_last' = [op |-> "evs", ok |-> TRUE, camel |-> None,
                       num_simulations |-> num_simulations,
                       queries |-> ev_last.queries + 1,
                       before |-> EvGame(moved), after |-> r.live,
                       trials |-> r.trials, results |-> r.results,
                       positions_before |-> ticket_positions,
                       remaining_before |-> remaining_tickets]
        /\ UNCHANGED <<remaining_tickets, ticket_positions>>

\* ExpectedValueCalculator.take_betting_ticket
take_betting_ticket(camel_name) ==
    /\ IF camel_name \in DOMAIN remaining_tickets /\ remaining_tickets[camel_name] > 0
       THEN /\ remaining_tickets' = [remaining_tickets EXCEPT ![camel_name] = @ - 1]
            /\ ticket_positions' = [ticket_positions EXCEPT ![camel_name] = @ + 1]
       ELSE UNCHANGED <<remaining_tickets, ticket_positions>>
    /\ ev_last' = [NoEvCall EXCEPT
                     !.op = "ticket",
                     !.queries = ev_last.queries,
                     !.ok = (camel_name \in DOMAIN remaining_tickets
                             /\ remaining_tickets[camel_name] > 0),
                     !.camel = camel_name,
                     !.positions_before = ticket_positions,
                     !.remaining_before = remaining_tickets]
    /\ UNCHANGED <<tiles, position>>

MaxTrials == 2
MaxQueries == 1

\* the dice moved this leg in the games the calculator is given
MovedInputs ==
    {DiceColors, DiceColors \ {"BW"}, DiceColors \ {"Red"},
     DiceColors \ {"Green", "BW"}, DiceColors \ {"Red", "Blue"},
     DiceColors \ {"Red", "Blue", "Green"}}

\* the camels tickets are taken for
TicketCamels == {"Green", "White"}

CalculateLegBetEvs ==
    /\ pc = "idle"
    /\ ev_last.queries < MaxQueries
    /\ \E num_simulations \in 0..MaxTrials, moved \in MovedInputs :
          calculate_leg_bet_evs(num_simulations, moved)
    /\ UNCHANGED <<camels, placed, last, betVars, turnVars, managerVars>>

TakeBettingTicket ==
    /\ pc = "idle"
    /\ \E camel_name \in TicketCamels : take_betting_ticket(camel_name)
    /\ UNCHANGED <<camels, placed, last, betVars, turnVars, managerVars>>

EvNext == SetupOdds \/ CalculateLegBetEvs \/ TakeBettingTicket

SpecEV == Init /\ [][EvNext]_vars

\* how often die d is in the list of dice drawn
TimesDrawn(drawn, d) == Cardinality({i \in 1..Len(drawn) : drawn[i] = d})

\* C21: in every trial of calculate_leg_bet_evs each die that is undrawn when
\* the trial starts is drawn exactly once, none twice and none skipped, and
\* the leading camel is read off the board all these moves were made on
C21_TrialDrawsEveryDieOnce ==
    ev_last.op = "evs" =>
        \A k \in 1..Len(ev_last.trials) :
            LET t == ev_last.trials[k]
            IN  /\ \A d \in DiceColors :
                      TimesDrawn(t.drawn, d) =
                          IF d \in ev_last.before.moved_this_leg THEN 0 ELSE 1
                /\ t.winning_camel = ranking_first(t.board)

\* C22: calculate_leg_bet_evs leaves the game as it was: after the trials
\* the board's stacks, the camels' positions and the dice moved this leg are
\* those of before the call
C22_TrialsLeaveGameUnchanged ==
    ev_last.op = "evs" =>
        /\ tiles = ev_last.before.tiles
        /\ position = ev_last.before.position
        /\ ev_last.after = ev_last.before

C22_Witness ==
    /\ ev_last.op = "evs"
    /\ ev_last.num_simulations = 2
    /\ \A k \in 1..2 : /\ Len(ev_last.trials[k].drawn) = 2
                        /\ ev_last.trials[k].board # tiles
    /\ ev_last.trials[1].board # ev_last.trials[2].board

\* C23: with no die left undrawn calculate_leg_bet_evs returns 0 for every
\* camel, whatever the board and the number of trials
C23_NoDiceLeftGivesZero ==
    (ev_last.op = "evs" /\ ev_last.before.moved_this_leg = DiceColors) =>
        \A c \in ForwardCamels : ev_last.results[c] = 0

RECURSIVE CreditsOf(_, _, _)
\* what the trials from the k-th on add to camel c
CreditsOf(trials, c, k) ==
    IF k > Len(trials) THEN 0
    ELSE (IF trials[k].winning_camel = c THEN trials[k].credit ELSE 0)
         + CreditsOf(trials, c, k + 1)

\* C24: the estimator's own ticket count: for every forward camel
\* ticket_positions + remaining_tickets = 4 with ticket_positions in 0..4;
\* take_betting_ticket moves the position on by one, and fails changing
\* nothing once four are taken; each trial adds for its leading camel the
\* payout of the camel's next position (5, 3, 2, 1, and 0 beyond the fourth)
C24_EstimatorTicketCount ==
    /\ \A c \in ForwardCamels :
          /\ ticket_positions[c] \in 0..4
          /\ ticket_positions[c] + remaining_tickets[c] = 4
    /\ ev_last.op = "ticket" =>
          LET c == ev_last.camel
              taken == c \in ForwardCamels /\ ev_last.positions_before[c] < 4
          IN  /\ ev_last.ok = taken
              /\ \A x \in ForwardCamels :
                    ticket_positions[x] =
                        ev_last.positions_before[x] + (IF taken /\ x = c THEN 1 ELSE 0)
              /\ \A x \in ForwardCamels :
                    remaining_tickets[x] =
                        ev_last.remaining_before[x] - (IF taken /\ x = c THEN 1 ELSE 0)
    /\ ev_last.op = "evs" =>
          /\ \A k \in 1..Len(ev_last.trials) :
                LET t == ev_last.trials[k]
                    next == ticket_positions[t.winning_camel] + 1
                IN  /\ t.winning_camel \in ForwardCamels
                    /\ t.credit = IF next <= 4 THEN <<5, 3, 2, 1>>[next] ELSE 0
          /\ \A c \in ForwardCamels :
                ev_last.results[c] = CreditsOf(ev_last.trials, c, 1)

C24_Witness ==
    /\ ev_last.op = "evs"
    /\ ev_last.num_simulations = 2
    /\ ticket_positions["Green"] = 3
    /\ ev_last.trials[1].winning_camel = "Green"
    /\ ev_last.trials[2].winning_camel \notin {"Green", None}
    /\ ev_last.results["Green"] = 1

(***************************************************************************)
(* Estimator and enumerator asked about the same single undrawn die        *)
(***************************************************************************)
\* the number of dice drawn before the two calculators are asked
MaxCrossMoves == 2

\* TurnManager.execute_action_3: the moves that lead to the boards asked about
CrossMove ==
    /\ ev_last.op = "none"
    /\ hist.turns < MaxCrossMoves
    /\ TakePyramidTicket

\* calculate_leg_bet_evs(num_simulations) on the game with die d as its only
\* undrawn die, then calculate_possible_outcomes([d]) on the same game
CrossCheck ==
    /\ pc = "idle"
    /\ ev_last.op = "none"
    /\ \E d \in DiceColors, num_simulations \in 1..MaxTrials :
          \E r \in simulations(EvGame(DiceColors \ {d}), ticket_positions,
                               num_simulations, <<>>, [c \in ForwardCamels |-> 0]) :
             \E o \in {calculate_possible_outcomes(
                           [tiles |-> r.live.tiles, position |-> r.live.position,
                            used_dice |-> used_dice], <<d>>)} :
                /\ tiles' = o.live.tiles
                /\ position' = o.live.position
                /\ used_dice' = o.live.used_dice
                /\ ev_last' = [op |-> "evs", ok |-> TRUE, camel |-> None,
                               num_simulations |-> num_simulations,
                               queries |-> ev_last.queries + 1,
                               before |-> EvGame(DiceColors \ {d}),
                               after |-> r.live,
                               trials |-> r.trials, results |-> r.results,
                               positions_before |-> ticket_positions,
                               remaining_before |-> remaining_tickets]
                /\ ret' = [ok |-> TRUE, msg |-> "outcomes", dice |-> <<d>>,
                           before |-> World, first |-> Outcomes(o),
                           again |-> FALSE, second |-> NoOutcomes]
    /\ UNCHANGED <<camels, placed, last, betVars, leg_dice_history, leg_ended,
                   last_pyramid_player, available_tickets, pyramid_tickets,
                   sp_tiles, managerVars, remaining_tickets, ticket_positions>>

CrossNext == SetupOdds \/ CrossMove \/ CrossCheck

SpecCross == Init /\ [][CrossNext]_vars

\* the board a scenario of the enumerator is about
ScenarioBoard(w, sc) ==
    move_camel_with_stack_tiles(w.tiles, w.position, sc.camel, sc.steps)

\* C36: with exactly one undrawn die, the leaders a trial of
\* calculate_leg_bet_evs can end with are the leaders
\* calculate_possible_outcomes lists for that die on the same board, face by
\* face: each trial made ends on the board of one of the listed faces with
\* the leader listed for it, and the (board, leader) pairs a trial can give
\* are exactly those listed.
C36_EstimatorMatchesEnumerator ==
    (ev_last.op = "evs" /\ ret.msg = "outcomes") =>
        LET scs == ret.first.scenarios
            listed == {<<ScenarioBoard(ret.before, scs[j]), ret.first.leaders[j]>> :
                          j \in 1..Len(scs)}
            possible == {<<t.board, t.winning_camel>> :
                            t \in trial(ev_last.before, ev_last.positions_before)}
        IN  /\ \A k \in 1..Len(ev_last.trials) :
                  /\ Len(ev_last.trials[k].drawn) = 1
                  /\ ev_last.trials[k].drawn[1] = ret.dice[1]
                  /\ <<ev_last.trials[k].board, ev_last.trials[k].winning_camel>>
                        \in listed
            /\ possible = listed

\* both calculators were asked about one die whose faces give different
\* leaders, and the two trials made ended with different leaders
C36_Witness ==
    /\ ev_last.op = "evs"
    /\ ret.msg = "outcomes"
    /\ Len(ret.dice) = 1
    /\ Len(ev_last.trials) = 2
    /\ ev_last.trials[1].winning_camel # ev_last.trials[2].winning_camel
    /\ \E j \in 1..Len(ret.first.leaders) :
          ret.first.leaders[j] = ev_last.trials[1].winning_camel
    /\ hist.turns > 0

(***************************************************************************)
(* The greedy ticket selection of analyze_betting_ticket_strategy          *)
(***************************************************************************)
\* the loop of analyze_betting_ticket_strategy: betting_evs, the estimates
\* of the camels that have a ticket left
betting_evs(results) ==
    [c \in {x \in ForwardCamels : remaining_tickets[x] > 0} |-> results[c]]

\* max(betting_evs.values()), as a sum of payouts over num_simulations trials
max_ev(evs) == CHOOSE v \in {evs[c] : c \in DOMAIN evs} : \A c \in DOMAIN evs : evs[c] <= v

\* the test the loop goes on with: betting_evs is not empty and its maximum
\* is above 1.0.  The estimate is the float sum of payout / num_simulations
\* over the trials; when the exact value is 1.0 the sum may round to either
\* side (rounded_up).
EveryTicketBeats(evs, n, rounded_up) == DOMAIN evs # {}

beats_baseline(evs, n, rounded_up) ==
    /\ DOMAIN evs # {}
    /\ \/ max_ev(evs) > n
       \/ max_ev(evs) = n /\ rounded_up

\* the record of an iteration of the loop
GreedyCall(g, n, r, beats, best, loop) ==
    [op |-> "greedy", ok |-> beats, camel |-> best, num_simulations |-> n,
     queries |-> ev_last.queries + 1, before |-> g, after |-> r.live,
     trials |-> <<>>, results |-> r.results,
     positions_before |-> ticket_positions,
     remaining_before |-> remaining_tickets,
     loop |-> loop]

\* one iteration of the `while True` loop: the estimates are computed again,
\* the loop is left if no ticket beats the baseline, else the best camel's
\* ticket is taken (take_betting_ticket)
greedy_iteration(n, moved) ==
    \E r \in {[live |-> x.live, results |-> x.results] :
                x \in simulations(EvGame(moved), ticket_positions, n, <<>>,
                                  [c \in ForwardCamels |-> 0])},
       rounded_up \in BOOLEAN :
        LET evs == betting_evs(r.results)
        IN  /\ tiles' = r.live.tiles
            /\ position' = r.live.position
            /\ IF ~beats_baseline(evs, n, rounded_up)
               THEN /\ ev_last' = GreedyCall(EvGame(moved), n, r, FALSE, None, "left")
                    /\ UNCHANGED <<remaining_tickets, ticket_positions>>
               ELSE \E best_camel \in {c \in DOMAIN evs : evs[c] = max_ev(evs)} :
                       /\ ev_last' = GreedyCall(EvGame(moved), n, r, TRUE,
                                                best_camel, "running")
                       /\ IF remaining_tickets[best_camel] > 0
                          THEN /\ remaining_tickets' =
                                     [remaining_tickets EXCEPT ![best_camel] = @ - 1]
                               /\ ticket_positions' =
                                     [ticket_positions EXCEPT ![best_camel] = @ + 1]
                          ELSE UNCHANGED <<remaining_tickets, ticket_positions>>

\* the dice moved this leg in the games the selection is run on
GreedyMoved ==
    {DiceColors, DiceColors \ {"Red"}, DiceColors \ {"Purple", "Yellow"},
     DiceColors \ {"Green", "BW"}}

\* the loop entered with a calculator that has all its tickets
GreedyStart ==
    /\ pc = "idle"
    /\ ev_last.op = "none"
    /\ \E n \in 1..MaxTrials, moved \in GreedyMoved : greedy_iteration(n, moved)
    /\ UNCHANGED <<camels, placed, last, betVars, turnVars, managerVars>>

\* the following iterations, on the same game with the same number of trials
GreedyStep ==
    /\ pc = "idle"
    /\ ev_last.op = "greedy"
    /\ ev_last.loop = "running"
    /\ greedy_iteration(ev_last.num_simulations, ev_last.before.moved_this_leg)
    /\ UNCHANGED <<camels, placed, last, betVars, turnVars, managerVars>>

GreedyNext == SetupOdds \/ GreedyStart \/ GreedyStep

SpecGreedy == Init /\ [][GreedyNext]_vars

\* the tickets left over all the racing camels
SumTickets(remaining) ==
    remaining["Red"] + remaining["Blue"] + remaining["Green"]
        + remaining["Yellow"] + remaining["Purple"]

BoardCamels == {"Red", "Blue", "Black"}

DieSteps == 1..3

BoardInit ==
    /\ BetInit
    /\ GameInit
    /\ camels = BoardCamels
    /\ tiles = initialize_camels_tiles(camels)
    /\ position = initialize_camels_position(camels)
    /\ placed = {}
    /\ last = NoOp

\* main.run_initial_setup / analyze_ev.setup_game: one die of the setup
InitialSetup(c, steps) ==
    /\ c \in camels \ placed
    /\ tiles' = move_camel_initial_setup_tiles(tiles, position, c, steps)
    /\ position' = [position EXCEPT ![c] = initial_setup_new_pos(c, steps)]
    /\ placed' = placed \cup {c}
    /\ last' = [op |-> "setup", camel |-> c, steps |-> steps,
                tiles |-> tiles, position |-> Padded(position)]
    /\ UNCHANGED <<camels, betVars, gameVars>>

\* Board.move_camel_with_stack, called once the setup is complete
MoveCamelWithStack(c, steps) ==
    /\ placed = camels
    /\ c \in camels
    /\ InStack(tiles[position[c]], c)
    /\ tiles' = move_camel_with_stack_tiles(tiles, position, c, steps)
    /\ position' = move_camel_with_stack_position(tiles, position, c, steps)
    /\ last' = [op |-> "move", camel |-> c, steps |-> steps,
                tiles |-> tiles, position |-> Padded(position)]
    /\ UNCHANGED <<camels, placed, betVars, gameVars>>

BoardSetupStep == \E c \in AllCamels, steps \in DieSteps : InitialSetup(c, steps)
BoardMoveStep == \E c \in AllCamels, steps \in DieSteps : MoveCamelWithStack(c, steps)

BoardNext == BoardSetupStep \/ BoardMoveStep

SpecBoard == BoardInit /\ [][BoardNext]_vars

\* Board.move_camel_stack, the move CamelUpGame.roll_die_and_move makes,
\* called once the setup is complete; it raises ValueError for a camel that
\* is not on its slot
MoveCamelStack(c, steps) ==
    /\ placed = camels
    /\ c \in camels
    /\ InStack(tiles[position[c]], c)
    /\ tiles' = move_camel_stack_tiles(tiles, position, c, steps)
    /\ position' = move_camel_stack_position(tiles, position, c, steps)
    /\ last' = [op |-> "move_stack", camel |-> c, steps |-> steps,
                tiles |-> tiles, position |-> Padded(position)]
    /\ UNCHANGED <<camels, placed, betVars, gameVars>>

BoardMoveStackStep == \E c \in AllCamels, steps \in DieSteps : MoveCamelStack(c, steps)

EntryNext == BoardSetupStep \/ BoardMoveStep \/ BoardMoveStackStep

SpecEntry == BoardInit /\ [][EntryNext]_vars

(***************************************************************************)
(* Claims about the board                                                  *)
(***************************************************************************)
Occurrences(stack, c) == Cardinality({i \in 1..Len(stack) : stack[i] = c})

RECURSIVE SumLen(_, _)
SumLen(t, s) == IF s < 0 THEN 0 ELSE Len(t[s]) + SumLen(t, s - 1)

CamelCount(t) == SumLen(t, track_length)

OnTrack(c) == position[c] \in Slots

\* C1: after initial-setup placements and stack moves every camel that has
\* entered the track stands in exactly one slot's stack, exactly once, its
\* recorded position is the index of that slot, every camel is on the track
\* once the setup is complete, and a stack move leaves the number of camels
\* on the board unchanged.
C1_CamelsResidentOnce ==
    /\ \A c \in camels :
          /\ (c \in placed \/ ~moves_backward(c)) => OnTrack(c)
          /\ \A s \in Slots :
                Occurrences(tiles[s], c) = IF s = position[c] THEN 1 ELSE 0
    /\ \A s \in Slots : \A i \in 1..Len(tiles[s]) : tiles[s][i] \in camels
    /\ placed = camels => CamelCount(tiles) = Cardinality(camels)
    /\ last.op = "move" => CamelCount(tiles) = CamelCount(last.tiles)

\* a stack of two or more camels has been moved onto an occupied slot
C1_Witness ==
    /\ last.op = "move"
    /\ placed = camels
    /\ \E s \in Slots : Len(tiles[s]) = 3
    /\ Len(last.tiles[last.position[last.camel]]) = 2
    /\ last.tiles[last.position[last.camel]][1] = last.camel

Clamp(x, lo, hi) == IF x < lo THEN lo ELSE IF x > hi THEN hi ELSE x

Direction(c) == IF moves_backward(c) THEN -1 ELSE 1

\* the camels at or above camel c in the stack, as a set
AtOrAbove(stack, c) ==
    {stack[i] : i \in {j \in 1..Len(stack) :
                          \E k \in 1..j : stack[k] = c}}

\* C2: after move_camel_with_stack(camel, steps), steps in 1..3, the camel
\* and every camel that stood above it are on slot
\* clamp(old + steps*direction, 0, L), and no slot index leaves 0..L.
C2_DestinationIsClamped ==
    last.op = "move" =>
        LET c == last.camel
            old == last.position[c]
            dest == Clamp(old + last.steps * Direction(c), 0, track_length)
        IN  /\ \A x \in AtOrAbove(last.tiles[old], c) :
                  /\ position[x] = dest
                  /\ InStack(tiles[dest], x)
            /\ \A x \in camels : position[x] \in Slots

\* a backward camel carrying a camel was clamped at slot 0, or a forward camel
\* carrying a camel was clamped at slot L
C2_Witness ==
    /\ last.op = "move"
    /\ Cardinality(AtOrAbove(last.tiles[last.position[last.camel]], last.camel)) >= 2
    /\ \/ /\ moves_backward(last.camel)
          /\ last.position[last.camel] - last.steps < 0
          /\ position[last.camel] = 0
       \/ /\ ~moves_backward(last.camel)
          /\ last.position[last.camel] + last.steps > track_length
          /\ position[last.camel] = track_length

\* C3: the moving unit is the chosen camel and all camels above it; it lands
\* on top of what stands on the destination slot in unchanged order; the
\* camels below it on the old slot and all other slots keep content and order.
C3_UnitOnTopFrame ==
    last.op = "move" =>
        LET c == last.camel
            old == last.position[c]
            oldStack == last.tiles[old]
            k == CHOOSE i \in 1..Len(oldStack) : oldStack[i] = c
            below == [i \in 1..(k - 1) |-> oldStack[i]]
            unit == [i \in 1..(Len(oldStack) - k + 1) |-> oldStack[k + i - 1]]
            dest == position[c]
        IN  /\ tiles[dest] = (IF dest = old THEN below ELSE last.tiles[dest]) \o unit
            /\ dest # old => tiles[old] = below
            /\ \A s \in Slots \ {old, dest} : tiles[s] = last.tiles[s]

\* the middle camel of a stack of three moved, with the camel above it, onto
\* an occupied slot
C3_Witness ==
    /\ last.op = "move"
    /\ Len(last.tiles[last.position[last.camel]]) = 3
    /\ last.tiles[last.position[last.camel]][2] = last.camel
    /\ position[last.camel] # last.position[last.camel]
    /\ Len(tiles[position[last.camel]]) = 2
    /\ Len(tiles[last.position[last.camel]]) = 1

\* C4: is_finished() is true exactly when the finish slot L holds a camel;
\* with all camels below L it is false.
C4_FinishedIffFinishSlot ==
    is_finished(tiles) <=> tiles[track_length] # <<>>

\* C34: Board.move_camel_stack obeys the destination rule of
\* move_camel_with_stack: called with the same camel and steps on the same
\* board, each gives the board the other would give; a backward camel moves
\* toward slot 0 and is clamped there.
C34_MoveStackSameAsWithStack ==
    /\ last.op = "move_stack" =>
          /\ tiles = move_camel_with_stack_tiles(last.tiles, last.position,
                                                 last.camel, last.steps)
          /\ \A c \in camels :
                position[c] = move_camel_with_stack_position(
                                  last.tiles, last.position, last.camel,
                                  last.steps)[c]
    /\ last.op = "move" =>
          /\ tiles = move_camel_stack_tiles(last.tiles, last.position,
                                            last.camel, last.steps)
          /\ \A c \in camels :
                position[c] = move_camel_stack_position(
                                  last.tiles, last.position, last.camel,
                                  last.steps)[c]

(***************************************************************************)
(* The betting manager on its own: bets are placed in turn order, then     *)
(* resolved                                                                *)
(***************************************************************************)
MaxBets == 6

\* the bets offered to the player to move (get_available_leg_bets,
\* get_available_race_bets, get_available_race_loser_bets), for two camels
BetCamels == {"Red", "Blue"}

\* the finishing orders passed to resolve_leg_bets: the single leading
\* camel (as _resolve_round_end passes it), full or partial orders, none
LegResults == {<<"Red">>, <<"Blue", "Red">>,
               <<"Green", "Blue", "Red", "Yellow", "Purple">>, <<>>}

\* the final orders passed to resolve_race_bets
FinalResults == {<<"Red", "Blue", "Green", "Yellow", "Purple">>,
                 <<"Blue", "Green", "Yellow", "Purple", "Red">>,
                 <<"Red">>, <<>>}

BetSpecInit ==
    /\ BetInit
    /\ GameInit
    /\ camels = AllCamels
    /\ tiles = initialize_camels_tiles(camels)
    /\ position = initialize_camels_position(camels)
    /\ placed = {}
    /\ last = NoOp

PlayerToMove == Len(bets) % NumPlayers

BetPlaceRace ==
    /\ bet_last.op \in {"none", "place"}
    /\ Len(bets) < MaxBets
    /\ \E bet_type \in {"race_winner", "race_loser"} :
          place_bet(PlayerToMove, bet_type, "Red", 0)
    /\ UNCHANGED <<boardVars, gameVars>>

BetPlaceLeg ==
    /\ bet_last.op \in {"none", "place"}
    /\ Len(bets) < MaxBets
    /\ \E c \in BetCamels :
          /\ leg_winner_tickets[c] # <<>>
          /\ place_bet(PlayerToMove, "leg_winner", c, leg_winner_tickets[c][1])
    /\ UNCHANGED <<boardVars, gameVars>>

BetResolveLeg ==
    /\ bet_last.op = "place"
    /\ \E leg_results \in LegResults : resolve_leg_bets(leg_results)
    /\ UNCHANGED <<boardVars, gameVars>>

BetResolveRace ==
    /\ bet_last.op = "place"
    /\ \E final_results \in FinalResults :
          \E wshuffled \in Shuffles(WinnerDeck(final_results)),
             lshuffled \in Shuffles(LoserDeck(final_results)) :
             resolve_race_bets(final_results, wshuffled, lshuffled)
    /\ UNCHANGED <<boardVars, gameVars>>

BetNext == BetPlaceRace \/ BetPlaceLeg \/ BetResolveLeg \/ BetResolveRace

SpecBet == BetSpecInit /\ [][BetNext]_vars

(***************************************************************************)
(* Claims about the betting manager                                        *)
(***************************************************************************)
\* the payout the rules give a leg-winner ticket for a finishing order
ExpectedLegPayout(b, results) ==
    IF Len(results) >= 1 /\ results[1] = b.target THEN b.ticket_value
    ELSE IF Len(results) >= 2 /\ results[2] = b.target THEN 1
    ELSE -1

\* C8: resolve_leg_bets gives every unresolved leg-winner bet the payout
\* ticket value (target 1st), 1 (target 2nd) or -1 (any other case, also
\* when the target is not in the finishing order passed in).
C8_LegPayoutAllCases ==
    bet_last.op = "resolve_leg" =>
        \A i \in SeqToSet(leg_bets_to_resolve(bet_last.bets, bet_last.active)) :
            /\ bets[i].resolved
            /\ bets[i].has_leg_payout
            /\ bets[i].leg_payout = ExpectedLegPayout(bet_last.bets[i], bet_last.results)

\* the payout of the token revealed i-th from the deck of the actual winner
\* or loser
RevealPayout(i) ==
    CASE i = 1 -> 8 [] i = 2 -> 5 [] i = 3 -> 3 [] i = 4 -> 2 [] i = 5 -> 1
      [] OTHER -> -1

IsPermutationOf(q, deck) ==
    /\ Len(q) = Len(deck)
    /\ SeqToSet(q) = SeqToSet(deck)
    /\ \A i, j \in 1..Len(q) : q[i] = q[j] => i = j

RevealedAsPaid(shuffled, deck) ==
    /\ IsPermutationOf(shuffled, deck)
    /\ \A i \in 1..Len(shuffled) :
          /\ bets[shuffled[i]].has_payout
          /\ bets[shuffled[i]].payout = RevealPayout(i)
          /\ bets[shuffled[i]].deck_position = i
          /\ bets[shuffled[i]].won
          /\ bets[shuffled[i]].resolved
    /\ Len(deck) <= 5 =>
          /\ {bets[i].payout : i \in SeqToSet(deck)}
                = {RevealPayout(k) : k \in 1..Len(deck)}
          /\ \A i, j \in SeqToSet(deck) :
                bets[i].payout = bets[j].payout => i = j

\* C9: in resolve_race_bets, whatever the shuffle, the token revealed i-th
\* from the deck of the actual winner (loser) is paid 8, 5, 3, 2, 1 for
\* i = 1..5 and -1 beyond; a deck of k <= 5 tokens gets the first k values,
\* each once.
C9_RevealOrderPayout ==
    (bet_last.op = "resolve_race" /\ bet_last.results # <<>>) =>
        LET results == bet_last.results
        IN  /\ RevealedAsPaid(bet_last.wshuffled, bet_last.wdecks[results[1]])
            /\ RevealedAsPaid(bet_last.lshuffled,
                              bet_last.ldecks[results[Len(results)]])

\* six tokens of the winner's deck were revealed in an order that is not the
\* order of placement
C9_Witness ==
    /\ bet_last.op = "resolve_race"
    /\ bet_last.results # <<>>
    /\ Len(bet_last.wshuffled) = 6
    /\ bet_last.wshuffled # bet_last.wdecks[bet_last.results[1]]
    /\ bets[bet_last.wshuffled[6]].payout = -1
    /\ bets[bet_last.wshuffled[1]].payout = 8

OtherDeckTokens(decks, actual) ==
    UNION {SeqToSet(decks[c]) : c \in ForwardCamels \ {actual}}

\* C10: every token of the winner deck of a camel that is not the actual
\* winner, and of the loser deck of a camel that is not the actual loser,
\* resolves with payout -1, whatever the deck size and the draw order.
C10_OtherDecksLose ==
    bet_last.op = "resolve_race" =>
        LET results == bet_last.results
            actual_winner == IF results # <<>> THEN results[1] ELSE None
            actual_loser == IF results # <<>> THEN results[Len(results)] ELSE None
        IN  \A i \in OtherDeckTokens(bet_last.wdecks, actual_winner)
                      \cup OtherDeckTokens(bet_last.ldecks, actual_loser) :
                /\ bets[i].resolved
                /\ bets[i].has_payout
                /\ bets[i].payout = -1
                /\ ~bets[i].won

\* Blue won and Red was last: three tokens of Red's winner deck lose while
\* Red's loser deck is revealed
C10_Witness ==
    /\ bet_last.op = "resolve_race"
    /\ bet_last.results # <<>>
    /\ bet_last.results[1] = "Blue"
    /\ Len(bet_last.wdecks["Red"]) = 3
    /\ Len(bet_last.lshuffled) = 2
    /\ \A i \in SeqToSet(bet_last.wdecks["Red"]) : bets[i].payout = -1

====
